---- MODULE Spec2Model ----
(***************************************************************************)
(* State-machine model of the elempleo-scraper repository.                 *)
(*                                                                         *)
(* The repository holds six stand-alone scripts.  One behaviour of the     *)
(* model runs one entry point, chosen by `prog` in the initial state:      *)
(*   "auto"     all_scraper.get_job_ids_with_playwright_auto               *)
(*   "scroll"   scrape.get_job_ids_with_playwright (the same loop is in    *)
(*              elempleo_full_scraper.get_job_ids_with_playwright)         *)
(*   "simple"   SimpleElempleoScraper.scrape                               *)
(*   "combined" JobScraper.scrape_all_sites                                *)
(*   "quick"    ElempleoQuickViewScraper.scrape                            *)
(*   "modal"    ElempleoQuickViewScraper._extract_from_quick_view          *)
(*   "details"  all_scraper.get_job_details                                *)
(*   "enrich"   elempleo_full_scraper.enrich_with_detail                   *)
(*   "save"     save_to_csv of combined_scraper, scrape and                *)
(*              elempleo_full_scraper                                      *)
(*   "main_all", "main_api", "main_full"                                   *)
(*              main of all_scraper, scrape and elempleo_full_scraper,     *)
(*              from the list its discovery call returned                  *)
(* A "combined" behaviour goes on with combined_scraper.main once          *)
(* scrape_all_sites has returned.                                          *)
(*                                                                         *)
(* Python values: a str is the sequence of its characters (<<>> is ''),    *)
(* a dict is a function whose DOMAIN is its key set, a list is a sequence, *)
(* a set is a bag whose members all have multiplicity one.  The browser    *)
(* and the network are the environment: what a page holds, and whether a   *)
(* call into them raises, is chosen with \E from the pools below.          *)
(***************************************************************************)
EXTENDS Integers, Sequences, FiniteSets, Bags, TLC

VARIABLES
    prog,         \* the entry point this behaviour runs
    pc,           \* position in its code
    err,          \* which except clause ran: "none", "timeout", "exception"
    ret,          \* the value returned (meaningful once pc = "done")
    job_ids,      \* job_ids = set()
    page_number,  \* all_scraper: page_number
    max_pages,    \* parameter max_pages (auto, simple)
    snapshots,    \* number of page.content() / session.get() results obtained
    buttons,      \* data-joboffer values of the last snapshot's buttons
    anchors,      \* page.locator("a") of the last snapshot: texts and a detached one
    next_link,    \* index of the anchor chosen as next_link (0: None)
    scroll,       \* scrape.py: scroll steps performed
    max_scrolls,  \* parameter max_scrolls
    repeated,     \* history: the last snapshot showed the same ids as the one before
    jobs,         \* self.jobs (simple, combined, quick)
    page,         \* simple: the loop variable `page` (0 before the first pass)
    soup,         \* the parsed page the card selectors run on
    cards,        \* the matched cards (job_cards / cards / quick_view_buttons)
    fetched,      \* the soups parsed so far in this run, in order
    site,         \* combined: index of the site being scraped (5: all four done)
    idx,          \* cards of the current listing handled so far
    max_jobs,     \* parameter max_jobs / max_per_site
    attempted,    \* history: the sites whose scrape method was entered, in order
    failed,       \* history: the sites whose scrape method caught an exception
    raised,       \* the step of a detail extraction that raised ("none": no step)
    job_in,       \* the dict handed to enrich_with_detail
    saver,        \* the script whose save_to_csv or main runs ("none": neither)
    file,         \* the text of the CSV file written (NoFile: none was opened)
    out,          \* what main printed about its result, in order
    main_ids,     \* main: job_ids, the list discovery returned
    results,      \* main: results / jobs, the records collected for saving
    visited,      \* history: the ids whose detail lookup main called, in order
    kept,         \* self.jobs as it was when the call in progress began
    modal_log,    \* history: quick-view clicks and _close_modal calls of this call
    browser_log   \* history: launch, page actions and close of this call's browser

idVars == <<job_ids, page_number, max_pages, snapshots, buttons, anchors,
            next_link, scroll, max_scrolls, repeated>>

cardVars == <<jobs, soup, cards>>

simpleVars == <<page, fetched>>

combVars == <<site, idx, max_jobs, attempted, failed>>

detVars == <<raised, job_in>>

mainVars == <<saver, file, out, main_ids, results, visited>>

objVars == <<kept, modal_log, browser_log>>

vars == <<prog, pc, err, ret, idVars, cardVars, simpleVars, combVars, detVars, mainVars,
          objVars>>

(***************************************************************************)
(* Bounds of the model.                                                    *)
(***************************************************************************)
\* Most identifiers a discovery call returns to main.
MaxIds == 3

\* Largest step limit tried (max_pages, max_scrolls, max_jobs range over 0..MaxLimit).
MaxLimit == 3
\* Most data-joboffer buttons on one listing snapshot.
MaxButtons == 2
\* Largest max_pages given to SimpleElempleoScraper.scrape.
MaxSimplePages == 4
\* Most records self.jobs holds when a scraper object is asked to scrape again,
\* and the largest limit of such a call.
MaxKept == 1

(***************************************************************************)
(* Text: str methods used by the scrapers, on sequences of characters.     *)
(***************************************************************************)
Range(s) == {s[i] : i \in 1..Len(s)}

\* A str literal as the sequence of its characters.
Chars(s) == [i \in 1..Len(s) |-> SubSeq(s, i, i)]

\* Sequences over S of length at most n.
SeqUpTo(S, n) == UNION {[1..k -> S] : k \in 0..n}

\* str.lower() on one character
LowerChar(c) ==
    CASE c = "A" -> "a" [] c = "B" -> "b" [] c = "C" -> "c" []
      c = "D" -> "d" [] c = "E" -> "e" [] c = "F" -> "f" [] c = "G" -> "g" []
      c = "H" -> "h" [] c = "I" -> "i" [] c = "J" -> "j" [] c = "K" -> "k" []
      c = "L" -> "l" [] c = "M" -> "m" [] c = "N" -> "n" [] c = "O" -> "o" []
      c = "P" -> "p" [] c = "Q" -> "q" [] c = "R" -> "r" [] c = "S" -> "s" []
      c = "T" -> "t" [] c = "U" -> "u" [] c = "V" -> "v" [] c = "W" -> "w" []
      c = "X" -> "x" [] c = "Y" -> "y" [] c = "Z" -> "z" [] c = "É" -> "é" []
      c = "Ñ" -> "ñ" [] c = "Ó" -> "ó" [] OTHER -> c

\* str.lower()
Lower(s) == [i \in 1..Len(s) |-> LowerChar(s[i])]

\* str.isspace() on one character
IsSpace(c) == c \in {" ", "\n", "\t"}

\* str.isdigit() on one character
IsDigit(c) == c \in {"0", "1", "2", "3", "4", "5", "6", "7", "8", "9"}

\* str.lstrip()
RECURSIVE LStrip(_)
LStrip(s) == IF s # <<>> /\ IsSpace(Head(s)) THEN LStrip(Tail(s)) ELSE s

\* str.rstrip()
RECURSIVE RStrip(_)
RStrip(s) ==
    IF s # <<>> /\ IsSpace(s[Len(s)]) THEN RStrip(SubSeq(s, 1, Len(s) - 1)) ELSE s

\* str.strip()
Strip(s) == RStrip(LStrip(s))

\* sub in s
HasSub(s, sub) ==
    \E i \in 1..(Len(s) - Len(sub) + 1) : SubSeq(s, i, i + Len(sub) - 1) = sub

\* s.startswith(p)
StartsWith(s, p) == Len(s) >= Len(p) /\ SubSeq(s, 1, Len(p)) = p

\* str.split('\n')
RECURSIVE SplitNL(_, _)
SplitNL(s, cur) ==
    IF s = <<>> THEN <<cur>>
    ELSE IF Head(s) = "\n" THEN <<cur>> \o SplitNL(Tail(s), <<>>)
    ELSE SplitNL(Tail(s), Append(cur, Head(s)))

\* [l.strip() for l in text.split('\n') if l.strip()]
RECURSIVE StripNonEmpty(_)
StripNonEmpty(ls) ==
    IF ls = <<>> THEN <<>>
    ELSE IF Strip(Head(ls)) # <<>> THEN <<Strip(Head(ls))>> \o StripNonEmpty(Tail(ls))
    ELSE StripNonEmpty(Tail(ls))

Lines(text) == StripNonEmpty(SplitNL(text, <<>>))

(***************************************************************************)
(* Python set and list(set).                                               *)
(***************************************************************************)
\* list.append in place of set.add: a member is added again.
SetAddAsList(s, x) == s (+) SetToBag({x})

\* set.add(x)
SetAdd(s, x) == IF BagIn(x, s) THEN s ELSE s (+) SetToBag({x})

\* The browser's history after one more action on its page.
Touch(log) == IF log # <<>> /\ log[Len(log)] = "page" THEN log ELSE Append(log, "page")

\* A close that is skipped when the try block raised.
CloseUnlessRaised(log, e) == IF e = "none" THEN Append(log, "close") ELSE log

\* `finally: browser.close()`: runs whatever the try block did (e)
Close(log, e) == Append(log, "close")

\* list(a_set): the members once each, in an order the program does not fix.
ListsOf(s) ==
    LET S == BagToSet(s)
        n == BagCardinality(s)
    IN  {l \in [1..n -> S] : \A x \in S : CopiesIn(x, s) = Cardinality({i \in 1..n : l[i] = x})}

(***************************************************************************)
(* Identifier discovery: the listing pages the environment can show.       *)
(***************************************************************************)
\* data-joboffer attribute values; "" is an attribute present but empty.
JobOfferValues == {"", "101", "102", "103"}

\* soup.find_all("button", attrs={"data-joboffer": True}) of one snapshot
Snapshots == SeqUpTo(JobOfferValues, MaxButtons)

\* The anchors of a listing page: texts in page order.
AnchorLists ==
    { <<>>,
      <<Chars("Anterior")>>,
      <<Chars("Anterior"), Chars("Siguiente")>>,
      <<Chars("next page"), Chars(" > "), Chars("NEXT\n")>>,
      <<Chars(">>"), Chars("»")>>,
      <<Chars("NEXT\n"), Chars("Anterior")>> }

\* all_scraper.py line 69: the tokens a next link's text is compared with
NextTokens ==
    { Chars("siguiente"), Chars(">"), Chars("»"),
      Chars("next") }

\* txt = a_elem.inner_text().strip(); txt.lower() in (...)
IsNextText(text) == Lower(Strip(text)) \in NextTokens

\* An anchor loop that keeps the last anchor whose text is a next token.
LastNext(as) ==
    IF \E i \in 1..Len(as) : IsNextText(as[i])
    THEN CHOOSE i \in 1..Len(as) :
            IsNextText(as[i]) /\ \A j \in (i + 1)..Len(as) : ~IsNextText(as[j])
    ELSE 0

\* The anchor loop of lines 66-72: the first anchor whose text is a next token
\* (0: found_next stays False).
FirstNext(as) ==
    IF \E i \in 1..Len(as) : IsNextText(as[i])
    THEN CHOOSE i \in 1..Len(as) :
            IsNextText(as[i]) /\ \A j \in 1..(i - 1) : ~IsNextText(as[j])
    ELSE 0

\* The anchors whose inner_text() the loop calls: up to the one it breaks at.
Scanned(as) == IF FirstNext(as) = 0 THEN 1..Len(as) ELSE 1..FirstNext(as)

\* lines 54-57: for btn in buttons: job_id = btn.get(...); if job_id: job_ids.add(job_id)
RECURSIVE CollectAuto(_, _)
CollectAuto(acc, b) ==
    IF b = <<>> THEN acc
    ELSE CollectAuto(IF Head(b) # "" THEN SetAdd(acc, Head(b)) ELSE acc, Tail(b))

\* A pass that keeps only the identifiers of the snapshot it has just read.
CollectScrollLatest(acc, b) == SetToBag(Range(b))

\* scrape.py lines 44-45: for btn in ...: job_ids.add(btn["data-joboffer"])
RECURSIVE CollectScroll(_, _)
CollectScroll(acc, b) ==
    IF b = <<>> THEN acc ELSE CollectScroll(SetAdd(acc, Head(b)), Tail(b))

(***************************************************************************)
(* all_scraper.get_job_ids_with_playwright_auto                            *)
(***************************************************************************)
\* line 41: page.goto(BASE_URL); page_number = 1
AutoGoto ==
    /\ prog = "auto" /\ pc = "goto"
    /\ \/ /\ pc' = "capture"
          /\ page_number' = 1
          /\ UNCHANGED err
       \/ /\ pc' = "finally"          \* goto raises: except Exception
          /\ err' = "exception"
          /\ UNCHANGED page_number
    /\ UNCHANGED <<cardVars, simpleVars, combVars, detVars, mainVars>>
    /\ UNCHANGED <<prog, ret, job_ids, max_pages, snapshots, buttons, anchors,
                   next_link, scroll, max_scrolls, repeated>>
    /\ browser_log' = <<"launch", "page">>
    /\ UNCHANGED <<kept, modal_log>>

\* A loop that also ends on a snapshot that adds no identifier to acc.
AfterCaptureNoNew(b, acc) ==
    IF b = <<>> \/ CollectAuto(acc, b) = acc THEN "finally" ELSE "findnext"

\* lines 49-52: `if not buttons: break`, whatever job_ids (acc) holds already
AfterCapture(b, acc) == IF b = <<>> THEN "finally" ELSE "findnext"

\* lines 45-58: html = page.content(); buttons; collect the ids
AutoCapture ==
    /\ prog = "auto" /\ pc = "capture"
    /\ \/ \E b \in Snapshots :
            /\ snapshots' = snapshots + 1
            /\ buttons' = b
            /\ repeated' = (snapshots >= 1 /\ Range(b) = Range(buttons))
            /\ pc' = AfterCapture(b, job_ids)
            /\ job_ids' = IF b = <<>> THEN job_ids                \* line 51: break
                          ELSE CollectAuto(job_ids, b)
            /\ UNCHANGED err
       \/ /\ pc' = "finally"          \* page.content() raises
          /\ err' = "exception"
          /\ UNCHANGED <<snapshots, buttons, job_ids, repeated>>
    /\ UNCHANGED <<cardVars, simpleVars, combVars, detVars, mainVars>>
    /\ UNCHANGED <<prog, ret, page_number, max_pages, anchors, next_link,
                   scroll, max_scrolls>>
    /\ browser_log' = Touch(browser_log)
    /\ UNCHANGED <<kept, modal_log>>

\* lines 60-75: scan the anchors for the next link
AutoFindNext ==
    /\ prog = "auto" /\ pc = "findnext"
    /\ \E as \in AnchorLists :
         /\ anchors' = as
         /\ \/ /\ next_link' = FirstNext(as)
               /\ pc' = IF FirstNext(as) = 0 THEN "finally" ELSE "click"
               /\ UNCHANGED err
            \/ /\ Scanned(as) # {}    \* inner_text() of a scanned anchor raises
               /\ next_link' = 0
               /\ pc' = "finally"
               /\ err' = "exception"
    /\ UNCHANGED <<cardVars, simpleVars, combVars, detVars, mainVars>>
    /\ UNCHANGED <<prog, ret, job_ids, page_number, max_pages, snapshots, buttons,
                   scroll, max_scrolls, repeated>>
    /\ browser_log' = Touch(browser_log)
    /\ UNCHANGED <<kept, modal_log>>

\* A limit test that lets one page too many through.
AutoAfterClickLate(n, limit) == IF n > limit + 1 THEN "finally" ELSE "capture"

\* The loop's exit test after an advance (line 82): page_number > max_pages.
AutoAfterClick(n, limit) == IF n > limit THEN "finally" ELSE "capture"

\* lines 77-84: next_link.click(); page_number += 1; the max_pages test
AutoClick ==
    /\ prog = "auto" /\ pc = "click"
    /\ \/ /\ page_number' = page_number + 1
          /\ pc' = AutoAfterClick(page_number + 1, max_pages)
          /\ UNCHANGED err
       \/ /\ pc' = "finally"          \* click raises (timeout, detached element)
          /\ err' = "exception"
          /\ UNCHANGED page_number
    /\ UNCHANGED <<cardVars, simpleVars, combVars, detVars, mainVars>>
    /\ UNCHANGED <<prog, ret, job_ids, max_pages, snapshots, buttons, anchors,
                   next_link, scroll, max_scrolls, repeated>>
    /\ browser_log' = Touch(browser_log)
    /\ UNCHANGED <<kept, modal_log>>

\* A driver that gives up what it collected when a step raised.
ReturnedIdsDropped(ids, e) == IF e # "none" THEN {<<>>} ELSE ListsOf(ids)

\* What the function returns once its try statement is left (line 91).
ReturnedIds(ids, e) == ListsOf(ids)

\* lines 89-91: finally: browser.close(); return list(job_ids)
AutoFinally ==
    /\ prog = "auto" /\ pc = "finally"
    /\ ret' \in ReturnedIds(job_ids, err)
    /\ pc' = "done"
    /\ UNCHANGED <<cardVars, simpleVars, combVars, detVars, mainVars>>
    /\ UNCHANGED <<prog, err, idVars>>
    /\ browser_log' = Close(browser_log, err)
    /\ UNCHANGED <<kept, modal_log>>

(***************************************************************************)
(* scrape.get_job_ids_with_playwright (scroll variant)                     *)
(***************************************************************************)
\* scrape.py line 34: page.goto(BASE_URL, wait_until="load", timeout=90000)
ScrollGoto ==
    /\ prog = "scroll" /\ pc = "goto"
    /\ \/ pc' = "scroll" /\ UNCHANGED err
       \/ pc' = "finally" /\ err' = "timeout"       \* except PlaywrightTimeout
       \/ pc' = "finally" /\ err' = "exception"     \* except Exception
    /\ UNCHANGED <<cardVars, simpleVars, combVars, detVars, mainVars>>
    /\ UNCHANGED <<prog, ret, idVars>>
    /\ browser_log' = <<"launch", "page">>
    /\ UNCHANGED <<kept, modal_log>>

\* lines 37-47: one pass of `for scroll in range(1, max_scrolls + 1)`
ScrollStep ==
    /\ prog = "scroll" /\ pc = "scroll"
    /\ scroll < max_scrolls
    /\ \/ \E b \in Snapshots :
            /\ scroll' = scroll + 1
            /\ snapshots' = snapshots + 1
            /\ buttons' = b
            /\ repeated' = (snapshots >= 1 /\ Range(b) = Range(buttons))
            /\ job_ids' = CollectScroll(job_ids, b)
            /\ UNCHANGED <<pc, err>>
       \/ /\ scroll' = scroll + 1     \* page.content() raises after the wheel
          /\ pc' = "finally"
          /\ err' = "exception"
          /\ UNCHANGED <<snapshots, buttons, job_ids, repeated>>
    /\ UNCHANGED <<cardVars, simpleVars, combVars, detVars, mainVars>>
    /\ UNCHANGED <<prog, ret, page_number, max_pages, anchors, next_link, max_scrolls>>
    /\ browser_log' = Touch(browser_log)
    /\ UNCHANGED <<kept, modal_log>>

\* line 37: the range is exhausted
ScrollExit ==
    /\ prog = "scroll" /\ pc = "scroll"
    /\ scroll >= max_scrolls
    /\ pc' = "finally"
    /\ UNCHANGED <<cardVars, simpleVars, combVars, detVars, mainVars>>
    /\ UNCHANGED <<prog, err, ret, idVars>>
    /\ UNCHANGED objVars

\* lines 55-58: finally: browser.close(); return list(job_ids)
ScrollFinally ==
    /\ prog = "scroll" /\ pc = "finally"
    /\ ret' \in ReturnedIds(job_ids, err)
    /\ pc' = "done"
    /\ UNCHANGED <<cardVars, simpleVars, combVars, detVars, mainVars>>
    /\ UNCHANGED <<prog, err, idVars>>
    /\ browser_log' = Close(browser_log, err)
    /\ UNCHANGED <<kept, modal_log>>

(***************************************************************************)
(* Markup: elements, and the texts the pools are built from.               *)
(***************************************************************************)
\* What select_one / locator(...).first gives: an element, or nothing.
El(text, href) == [found |-> TRUE, text |-> text, href |-> href]
NoEl == [found |-> FALSE, text |-> <<>>, href |-> <<>>]

\* a or b or c over select_one results: the first element found (a Tag is truthy
\* whatever its text), else None.
RECURSIVE FirstTag(_)
FirstTag(c) ==
    IF c = <<>> THEN NoEl
    ELSE IF Head(c).found THEN Head(c) ELSE FirstTag(Tail(c))

\* el.get_text(strip=True) of an element holding one string
GetText(el) == Strip(el.text)

\* s[:n]
Take(s, n) == SubSeq(s, 1, IF Len(s) < n THEN Len(s) ELSE n)

\* "https://www.elempleo.com"
ElempleoBase ==
    Chars("https://www.elempleo.com")

\* href if href.startswith('http') else f"{base}{href}"
AbsUrl(base, href) == IF StartsWith(href, Chars("http")) THEN href ELSE base \o href

(***************************************************************************)
(* SimpleElempleoScraper (elempleo_scraper_simple.py)                      *)
(***************************************************************************)
\* elempleo_scraper_simple.py line 178: description[:500]
DescLimit == 500

\* lines 85-89: the card selectors, in the order of the `or` chain
SimpleSelectors ==
    <<".card-offer", ".job-item", "article.job", "[data-job-id]", ".vacancy-card">>

\* An element of a listing page: the card selectors it matches, what each
\* select_one of _parse_job_card finds in it, and whether parsing it raises.
SimpleCard(cls, title, company, salary, raises) ==
    [cls |-> cls, title |-> title, company |-> company,
     location |-> <<NoEl, NoEl, NoEl>>, salary |-> salary,
     date |-> <<NoEl, NoEl, El(Chars("hoy"), <<>>)>>,
     desc |-> <<El(Chars("desc"), <<>>), NoEl, NoEl>>, raises |-> raises]

SC_A == SimpleCard({".card-offer"}, <<El(Chars(" Dev\n"), Chars("/j/1")), NoEl, NoEl, NoEl>>,
                   <<El(Chars("Acme"), <<>>), NoEl, NoEl>>, <<NoEl, El(Chars("₡450"), <<>>), NoEl>>, FALSE)
SC_B == SimpleCard({".job-item"}, <<NoEl, El(Chars("QA"), Chars("http://x/2")), NoEl, NoEl>>,
                   <<NoEl, NoEl, NoEl>>, <<NoEl, NoEl, NoEl>>, FALSE)
\* a card with no title link
SC_U == SimpleCard({".job-item", "[data-job-id]"}, <<NoEl, NoEl, NoEl, NoEl>>,
                   <<NoEl, El(Chars("Acme"), <<>>), NoEl>>, <<NoEl, NoEl, NoEl>>, FALSE)
\* a card whose first title link is empty and whose a.title holds the text
SC_E == SimpleCard({".card-offer"}, <<El(Chars(" "), <<>>), NoEl, NoEl, El(Chars("Ops"), Chars("/j/1"))>>,
                   <<NoEl, NoEl, NoEl>>, <<NoEl, NoEl, NoEl>>, FALSE)
\* a card whose parsing raises
SC_X == SimpleCard({".card-offer"}, <<El(Chars("Ops"), Chars("/j/1")), NoEl, NoEl, NoEl>>,
                   <<NoEl, NoEl, NoEl>>, <<NoEl, NoEl, NoEl>>, TRUE)
SC_V == SimpleCard({".vacancy-card"}, <<NoEl, NoEl, El(Chars("Ops"), Chars("http://x/2")), NoEl>>,
                   <<NoEl, NoEl, NoEl>>, <<NoEl, NoEl, NoEl>>, FALSE)
SC_C == SimpleCard({".card-offer", ".job-item"}, <<NoEl, NoEl, El(Chars("QA"), Chars("http://x/2")), NoEl>>,
                   <<NoEl, NoEl, El(Chars("Beta"), <<>>)>>, <<NoEl, NoEl, NoEl>>, FALSE)
\* an element no card selector matches
SC_N == SimpleCard({}, <<El(Chars("QA"), <<>>), NoEl, NoEl, NoEl>>,
                   <<NoEl, NoEl, NoEl>>, <<NoEl, NoEl, NoEl>>, FALSE)

\* The listing pages session.get can return, as the elements in document order.
SimpleSoups ==
    { <<>>, <<SC_N>>, <<SC_B, SC_A, SC_U>>, <<SC_U, SC_B>>, <<SC_X, SC_E>>, <<SC_V>>,
      <<SC_A, SC_X, SC_C>> }

\* soup.select(sel): the elements matching sel, in document order
RECURSIVE Select(_, _)
Select(s, sel) ==
    IF s = <<>> THEN <<>>
    ELSE IF sel \in Head(s).cls THEN <<Head(s)>> \o Select(Tail(s), sel)
    ELSE Select(Tail(s), sel)

\* A cascade that keeps the last selector that matches instead of the first.
RECURSIVE OrChainLast(_, _)
OrChainLast(s, sels) ==
    IF sels = <<>> THEN <<>>
    ELSE IF OrChainLast(s, Tail(sels)) # <<>> THEN OrChainLast(s, Tail(sels))
    ELSE Select(s, Head(sels))

\* lines 84-90: soup.select(s1) or soup.select(s2) or ...
RECURSIVE OrChain(_, _)
OrChain(s, sels) ==
    IF sels = <<>> THEN <<>>
    ELSE IF Select(s, Head(sels)) # <<>> THEN Select(s, Head(sels))
    ELSE OrChain(s, Tail(sels))

\* lines 108-180: _parse_job_card
ParseJobCard(card) ==
    LET title_elem    == FirstTag(card.title)
        company_elem  == FirstTag(card.company)
        location_elem == FirstTag(card.location)
        salary_elem   == FirstTag(card.salary)
        date_elem     == FirstTag(card.date)
        desc_elem     == FirstTag(card.desc)
    IN  [title        |-> IF title_elem.found THEN GetText(title_elem) ELSE <<>>,
         company      |-> IF company_elem.found THEN GetText(company_elem) ELSE <<>>,
         location     |-> IF location_elem.found THEN GetText(location_elem) ELSE <<>>,
         description  |-> IF desc_elem.found THEN Take(GetText(desc_elem), DescLimit) ELSE <<>>,
         salary       |-> IF salary_elem.found THEN GetText(salary_elem) ELSE <<>>,
         posting_date |-> IF date_elem.found THEN GetText(date_elem) ELSE <<>>,
         url          |-> IF title_elem.found /\ title_elem.href # <<>>
                          THEN AbsUrl(ElempleoBase, title_elem.href) ELSE <<>>]

\* lines 101-102: if job and job['title']: self.jobs.append(job)
KeepJob(job) == job.title # <<>>

\* A card loop that a card's exception ends.
RECURSIVE ExtractJobsAbort(_, _)
ExtractJobsAbort(acc, cs) ==
    IF cs = <<>> \/ Head(cs).raises THEN acc
    ELSE IF KeepJob(ParseJobCard(Head(cs)))
         THEN ExtractJobsAbort(Append(acc, ParseJobCard(Head(cs))), Tail(cs))
    ELSE ExtractJobsAbort(acc, Tail(cs))

\* lines 98-104: the card loop of _extract_jobs_from_soup
RECURSIVE ExtractJobs(_, _)
ExtractJobs(acc, cs) ==
    IF cs = <<>> THEN acc
    ELSE IF Head(cs).raises THEN ExtractJobs(acc, Tail(cs))      \* except: logged
    ELSE IF KeepJob(ParseJobCard(Head(cs)))
         THEN ExtractJobs(Append(acc, ParseJobCard(Head(cs))), Tail(cs))
    ELSE ExtractJobs(acc, Tail(cs))

\* A page loop that does not look at the number of cards.
SimpleAfterPageAlways(n) == "loop"

\* lines 67-69: does the page loop go on after a page with n cards?
SimpleAfterPage(n) == IF n = 0 THEN "return" ELSE "loop"

\* lines 44-69: one pass of `for page in range(1, max_pages + 1)`
SimpleIteration ==
    /\ prog = "simple" /\ pc = "loop"
    /\ page < max_pages
    /\ page' = page + 1
    /\ \/ \E s \in SimpleSoups :
            /\ snapshots' = snapshots + 1
            /\ soup' = s
            /\ fetched' = Append(fetched, s)
            /\ cards' = OrChain(s, SimpleSelectors)
            /\ jobs' = ExtractJobs(jobs, cards')
            /\ pc' = SimpleAfterPage(Len(cards'))
            /\ UNCHANGED err
       \/ /\ pc' = "return"           \* session.get / raise_for_status raises
          /\ err' = "request"
          /\ UNCHANGED <<snapshots, soup, fetched, cards, jobs>>
       \/ /\ pc' = "return"           \* BeautifulSoup(...) raises: except Exception
          /\ err' = "exception"
          /\ snapshots' = snapshots + 1
          /\ UNCHANGED <<soup, fetched, cards, jobs>>
    /\ UNCHANGED <<prog, ret, job_ids, page_number, max_pages, buttons, anchors,
                   next_link, scroll, max_scrolls, repeated, <<combVars, detVars, mainVars>>>>
    /\ UNCHANGED objVars

\* line 44: the range is exhausted
SimpleExit ==
    /\ prog = "simple" /\ pc = "loop"
    /\ page >= max_pages
    /\ pc' = "return"
    /\ UNCHANGED <<prog, err, ret, idVars, cardVars, simpleVars, <<combVars, detVars, mainVars>>>>
    /\ UNCHANGED objVars

\* What scrape() returns after its try statement (lines 76-77).
SimpleResult(js, e) == js

\* lines 76-77: return self.jobs
SimpleReturn ==
    /\ prog = "simple" /\ pc = "return"
    /\ ret' = SimpleResult(jobs, err)
    /\ pc' = "done"
    /\ UNCHANGED <<prog, err, idVars, cardVars, simpleVars, <<combVars, detVars, mainVars>>>>
    /\ UNCHANGED objVars

(***************************************************************************)
(* JobScraper (combined_scraper.py)                                        *)
(***************************************************************************)
\* lines 24-33: FIELDS
FIELDS ==
    <<"source_site", "title", "company", "description", "category", "type",
      "tag", "featured", "featured_image", "filled", "urgent", "expiry_date",
      "application_deadline_date", "posting_date", "location", "address",
      "map_location", "salary", "salary_type", "max_salary", "experience",
      "career_level", "qualification", "gender", "apply_type", "apply_url",
      "apply_email", "video_url", "photos", "url">>

\* The site names, in the order scrape_all_sites runs them (lines 73-76).
SiteNames ==
    << Chars("elempleo.com"),
       Chars("computrabajo.com"),
       Chars("indeed.com"),
       Chars("jooble.org") >>

\* The prefix each site's scrape method puts before a relative href.
SiteBase ==
    << ElempleoBase,
       Chars("https://cr.computrabajo.com"),
       Chars("https://cr.indeed.com"),
       Chars("https://cr.jooble.org") >>

\* selector_sets of the four scrape methods (lines 136-143, 224-231, 307-314,
\* 390-396), each entry the joined selector string of line 106.
SiteSelectors ==
    << <<".js-joboffer-result", "article", "[class*=\"result\"]", "[class*=\"offer\"]",
         "[class*=\"job\"]", "div[class*=\"item\"]">>,
       <<"article", ".bRS", "[data-tracking]", ".js-o-link", "[class*=\"result\"]",
         "div.box">>,
       <<"li.job_seen_beacon", "div.job_seen_beacon", "div[data-jk]",
         "div.jobsearch-SerpJobCard", "div[class*=\"result\"]", "td.resultContent">>,
       <<"article", "div[class*=\"vacancy\"]", "div[class*=\"job\"]",
         "div[class*=\"result\"]", "[data-test*=\"vacancy\"]">> >>

\* any(w in line for w in ws)
HasAny(line, ws) == \E w \in ws : HasSub(line, w)

\* any(char.isdigit() for char in line)
HasDigit(line) == \E i \in 1..Len(line) : IsDigit(line[i])

\* for line in lines: if <test>: x = line; break, where ok is the set of the
\* lines that pass the test (x keeps old when none does)
FirstWith(lines, ok, old) ==
    IF \E i \in 1..Len(lines) : lines[i] \in ok
    THEN lines[CHOOSE i \in 1..Len(lines) :
                  lines[i] \in ok /\ \A j \in 1..(i - 1) : lines[j] \notin ok]
    ELSE old

\* for line in lines: if <test>: x = line          (the last such line stays)
LastWith(lines, ok, old) ==
    IF \E i \in 1..Len(lines) : lines[i] \in ok
    THEN lines[CHOOSE i \in 1..Len(lines) :
                  lines[i] \in ok /\ \A j \in (i + 1)..Len(lines) : lines[j] \notin ok]
    ELSE old

\* ' '.join(ls)
RECURSIVE JoinSpace(_)
JoinSpace(ls) ==
    IF ls = <<>> THEN <<>>
    ELSE IF Len(ls) = 1 THEN ls[1]
    ELSE ls[1] \o Chars(" ") \o JoinSpace(Tail(ls))

\* ls[a:b] with 0 <= a <= b (Python slice, 0-based, end excluded)
Slice(ls, a, b) == SubSeq(ls, a + 1, IF b < Len(ls) THEN b ELSE Len(ls))

\* The end of the run of digits that starts at t[i].
RECURSIVE DigitRunEnd(_, _)
DigitRunEnd(t, i) ==
    IF i < Len(t) /\ IsDigit(t[i + 1]) THEN DigitRunEnd(t, i + 1) ELSE i

\* The first index from k on that holds no whitespace (Len(t) + 1 when none).
RECURSIVE SkipSpace(_, _)
SkipSpace(t, k) == IF k <= Len(t) /\ IsSpace(t[k]) THEN SkipSpace(t, k + 1) ELSE k

\* Does r'(\d+)\s*años?' match t from index i on?
ExpMatchAt(t, i) ==
    /\ IsDigit(t[i])
    /\ LET k == SkipSpace(t, DigitRunEnd(t, i) + 1)
       IN  k + 2 <= Len(t) /\ SubSeq(t, k, k + 2) = Chars("año")

\* lines 179-181: exp_match = re.search(r'(\d+)\s*años?', card_text.lower());
\* f"{exp_match.group(1)} años", else the field keeps old
Experience(card_text, old) ==
    LET t == Lower(card_text)
    IN  IF \E i \in 1..Len(t) : ExpMatchAt(t, i)
        THEN LET i == CHOOSE i \in 1..Len(t) :
                        ExpMatchAt(t, i) /\ \A j \in 1..(i - 1) : ~ExpMatchAt(t, j)
             IN  SubSeq(t, i, DigitRunEnd(t, i)) \o Chars(" años")
        ELSE old

\* A card loop that keeps filling the record of the card before.
InitJobCarried(s) ==
    IF jobs = <<>>
    THEN [f \in Range(FIELDS) |->
             IF f = "source_site" THEN s
             ELSE IF f \in {"featured", "filled", "urgent"} THEN FALSE
             ELSE <<>>]
    ELSE [jobs[Len(jobs)] EXCEPT !["source_site"] = s]

\* lines 449-456: _init_job
InitJob(s) ==
    [f \in Range(FIELDS) |->
        IF f = "source_site" THEN s
        ELSE IF f \in {"featured", "filled", "urgent"} THEN FALSE
        ELSE <<>>]

ElempleoCity(l) == HasAny(l, {Chars("San José"), Chars("Heredia"), Chars("Cartago"), Chars("Alajuela"), Chars("Limón")})
\* A salary test that takes any line.
ElempleoSalaryAny(l) == TRUE

ElempleoSalary(l) ==
    HasSub(l, Chars("₡")) \/ HasSub(l, Chars("$")) \/ HasSub(Lower(l), Chars("colones"))

\* lines 159-181: the text part of scrape_elempleo's card loop
ElempleoText(job, card_text) ==
    LET lines == Lines(card_text)
    IN  IF Len(lines) >= 2
        THEN [job EXCEPT !["title"] = lines[1],
                         !["company"] = lines[2],
                         !["location"] = FirstWith(lines, {l \in Range(lines) : ElempleoCity(l)}, @),
                         !["salary"] = FirstWith(lines, {l \in Range(lines) : ElempleoSalary(l)}, @),
                         !["experience"] = Experience(card_text, @)]
        ELSE job

CompuCity(l) == HasAny(l, {Chars("San José"), Chars("Heredia"), Chars("Cartago"), Chars("Alajuela"), Chars("Costa Rica")})
CompuSalary(l) ==
    HasSub(l, Chars("₡")) \/ HasSub(l, Chars("$")) \/ HasSub(Lower(l), Chars("salario"))
CompuDate(l) == HasSub(Lower(l), Chars("hace")) \/ HasSub(Lower(l), Chars("hoy"))

\* lines 247-267: the text part of scrape_computrabajo's card loop
CompuText(job, card_text) ==
    LET lines == Lines(card_text)
    IN  IF Len(lines) >= 2
        THEN [job EXCEPT !["title"] = lines[1],
                         !["company"] = lines[2],
                         !["location"] = LastWith(lines, {l \in Range(lines) : CompuCity(l)}, @),
                         !["salary"] = LastWith(lines, {l \in Range(lines) : CompuSalary(l)}, @),
                         !["posting_date"] = LastWith(lines, {l \in Range(lines) : CompuDate(l)}, @)]
        ELSE job

IndeedCity(l) == HasSub(l, Chars("Costa Rica")) \/ HasAny(l, {Chars("San José"), Chars("Heredia")})
IndeedSalary(l) ==
    /\ HasSub(l, Chars("$")) \/ HasSub(l, Chars("₡")) \/ HasSub(Lower(l), Chars("año"))
    /\ HasDigit(l)

\* lines 330-350: the text part of scrape_indeed's card loop
IndeedText(job, card_text) ==
    LET lines == Lines(card_text)
    IN  IF Len(lines) >= 2
        THEN [job EXCEPT !["title"] = lines[1],
                         !["company"] = lines[2],
                         !["location"] = LastWith(lines, {l \in Range(lines) : IndeedCity(l)}, @),
                         !["salary"] = LastWith(lines, {l \in Range(lines) : IndeedSalary(l)}, @),
                         !["description"] =
                             IF Len(lines) > 3 THEN JoinSpace(Slice(lines, 3, 6)) ELSE @]
        ELSE job

JoobleSalary(l) == HasSub(l, Chars("$")) \/ HasSub(l, Chars("₡"))

\* lines 412-425: the text part of scrape_jooble's card loop
JoobleText(job, card_text) ==
    LET lines == Lines(card_text)
    IN  IF Len(lines) >= 1
        THEN [job EXCEPT !["title"] = lines[1],
                         !["company"] = IF Len(lines) > 1 THEN lines[2] ELSE <<>>,
                         !["location"] = LastWith(lines, {l \in Range(lines) : IndeedCity(l)}, @),
                         !["salary"] = LastWith(lines, {l \in Range(lines) : JoobleSalary(l)}, @)]
        ELSE job

\* "Get URL": link = card.locator('a').first; href = link.get_attribute('href')
CardUrl(job, link, base) ==
    IF link.found /\ link.href # <<>>
    THEN [job EXCEPT !["url"] = AbsUrl(base, link.href)]
    ELSE job

\* lines 190-191: scrape_elempleo alone sets the contact fields
ElempleoApply(job) ==
    [job EXCEPT !["apply_type"] = Chars("email"), !["apply_email"] = Chars("info@elempleo.com")]

\* The record one pass of a site's card loop builds from a card that raises nothing.
SiteJob(i, card) ==
    LET job == InitJob(SiteNames[i])
    IN  CASE i = 1 -> ElempleoApply(CardUrl(ElempleoText(job, card.text), card.link, SiteBase[1]))
          [] i = 2 -> CardUrl(CompuText(job, card.text), card.link, SiteBase[2])
          [] i = 3 -> CardUrl(IndeedText(job, card.text), card.link, SiteBase[3])
          [] OTHER -> CardUrl(JoobleText(job, card.text), card.link, SiteBase[4])

\* A card of a listing: the selectors it matches, its inner_text(), its first
\* link, and the call on it that raises ("none", "text": inner_text, "link":
\* the link lookup).
Card(cls, text, link, raises) ==
    [cls |-> cls, text |-> text, link |-> link, raises |-> raises]

ClsResult  == {"[class*=\"result\"]", "div[class*=\"result\"]"}
ClsArticle == {"article"}
ClsOffer   == {".js-joboffer-result", "article", "[class*=\"result\"]", "[class*=\"offer\"]",
               "[class*=\"job\"]"}

K1 == Card(ClsResult, Chars("Dev\nAcme\nHeredia"), El(<<>>, Chars("/j/1")), "none")
K2 == Card(ClsResult, Chars(" QA \nBeta\n₡450 mensual\n3 Años"), El(<<>>, Chars("http://x/2")), "none")
K3 == Card(ClsResult, Chars("Ops\nGamma\n$ 900\nSan José, Costa Rica\nhace 2 días"), NoEl, "none")
KS == Card(ClsArticle, Chars("Solo"), El(<<>>, <<>>), "none")
KN == Card(ClsOffer, Chars("Jefe\nDelta\nPago en colones\n$ a convenir\nBuen salario"), NoEl, "none")
KE == Card(ClsResult, Chars(" \n	\n"), El(<<>>, Chars("/j/1")), "none")
KR == Card(ClsResult, Chars("Dev\nAcme\nHeredia"), NoEl, "text")
KL == Card(ClsArticle, Chars(" QA \nBeta\n₡450 mensual\n3 Años"), NoEl, "link")

\* A rendered listing page: its elements in document order, and the selectors
\* whose locator call raises.
CombPages ==
    { [els |-> <<>>, bad |-> {}],
      [els |-> <<K1, K2, K3>>, bad |-> {}],
      [els |-> <<KS, KR, KL, KE, K2>>, bad |-> {}],
      [els |-> <<KN, K3, KS>>, bad |-> {"article", ".js-joboffer-result"}] }

\* A cascade that takes the selector with the most matches.
FindMostElements(pg, selector_sets) ==
    LET ok == {k \in 1..Len(selector_sets) : selector_sets[k] \notin pg.bad}
        n(k) == Len(Select(pg.els, selector_sets[k]))
    IN  IF \E k \in ok : n(k) > 0
        THEN Select(pg.els, selector_sets[
                 CHOOSE k \in ok : \A j \in ok : n(k) > n(j) \/ (n(k) = n(j) /\ k <= j)])
        ELSE <<>>

\* lines 103-116: _find_elements_debug
RECURSIVE FindElementsDebug(_, _)
FindElementsDebug(pg, selector_sets) ==
    IF selector_sets = <<>> THEN <<>>
    ELSE IF Head(selector_sets) \in pg.bad
         THEN FindElementsDebug(pg, Tail(selector_sets))        \* except: logged
    ELSE IF Len(Select(pg.els, Head(selector_sets))) > 0
         THEN Select(pg.els, Head(selector_sets))
    ELSE FindElementsDebug(pg, Tail(selector_sets))

\* cards[:max_jobs]: how many cards the loop handles
Truncated(cs, n) == IF n < Len(cs) THEN n ELSE Len(cs)

\* A list that takes each new record at its front.
ListPrepend(l, x) == <<x>> \o l

\* list.append(x): self.jobs.append(job) (combined_scraper lines 194, 277, 360,
\* 435), results.append(...) (all_scraper line 239), jobs.append(job)
\* (scrape.py line 127)
ListAppend(l, x) == Append(l, x)

\* A card loop that appends whatever it built.
KeepAnyCard(job) == TRUE

\* A test that also drops a card whose title a record of self.jobs has already.
KeepCardUnseen(job) ==
    job["title"] # <<>> /\ \A i \in 1..Len(jobs) : jobs[i]["title"] # job["title"]

\* `if job['title']:` before self.jobs.append(job) (lines 193, 276, 359, 434)
KeepCard(job) == job["title"] # <<>>

\* A run in which a site's exception ends the remaining site calls.
AfterFailureAbort(s) == 5

\* The site a failed site run hands over to: each scrape method catches its own
\* exceptions (lines 203, 286, 369, 444), so the next call of lines 73-76 runs.
AfterFailure(s) == s + 1

\* One site's scrape method up to its card loop: navigate, debug, find cards.
CombSite ==
    /\ prog = "combined" /\ pc = "site" /\ site <= 4
    /\ attempted' = Append(attempted, site)
    /\ idx' = 0
    /\ \/ \E pg \in CombPages :
            /\ soup' = pg
            /\ cards' = FindElementsDebug(pg, SiteSelectors[site])
            /\ IF cards' = <<>>
               THEN pc' = "site" /\ site' = site + 1          \* line 147: return
               ELSE pc' = "cards" /\ site' = site
            /\ UNCHANGED <<err, failed>>
       \/ /\ pc' = "site"             \* page.goto or _wait_and_debug raises
          /\ site' = AfterFailure(site)
          /\ err' = "exception"
          /\ failed' = failed \cup {site}
          /\ UNCHANGED <<soup, cards>>
    /\ UNCHANGED <<prog, ret, jobs, max_jobs, idVars, simpleVars, detVars, mainVars>>
    /\ browser_log' = Touch(IF site = 1 THEN <<"launch">> ELSE browser_log)
    /\ UNCHANGED <<kept, modal_log>>

\* One pass of `for idx, card in enumerate(cards[:max_jobs], 1)`
CombCard ==
    /\ prog = "combined" /\ pc = "cards"
    /\ idx < Truncated(cards, max_jobs)
    /\ idx' = idx + 1
    /\ LET card == cards[idx + 1]
           job == SiteJob(site, card)
       IN  jobs' = IF card.raises = "none" /\ KeepCard(job) THEN ListAppend(jobs, job)
                   ELSE jobs
    /\ UNCHANGED <<prog, pc, err, ret, soup, cards, site, max_jobs, attempted, failed,
                   idVars, simpleVars, detVars, mainVars>>
    /\ browser_log' = Touch(browser_log)
    /\ UNCHANGED <<kept, modal_log>>

\* The card loop is over: the scrape method returns.
CombSiteEnd ==
    /\ prog = "combined" /\ pc = "cards"
    /\ idx >= Truncated(cards, max_jobs)
    /\ pc' = "site"
    /\ site' = site + 1
    /\ UNCHANGED <<prog, err, ret, cardVars, idx, max_jobs, attempted, failed,
                   idVars, simpleVars, detVars, mainVars>>
    /\ UNCHANGED objVars

\* lines 80-84: finally: browser.close(); return self.jobs
CombFinally ==
    /\ prog = "combined" /\ pc = "site" /\ site > 4
    /\ ret' = jobs
    /\ pc' = "done"
    /\ UNCHANGED <<prog, err, cardVars, combVars, idVars, simpleVars, detVars, mainVars>>
    /\ browser_log' = Close(browser_log, err)
    /\ UNCHANGED <<kept, modal_log>>

(***************************************************************************)
(* all_scraper.py: get_job_details                                         *)
(***************************************************************************)
\* lines 20-27: HEADERS
HEADERS ==
    <<"_job_featured_image", "_job_title", "_job_featured", "_job_filled",
      "_job_urgent", "_job_description", "_job_category", "_job_type",
      "_job_tag", "_job_expiry_date", "_job_gender", "_job_apply_type",
      "_job_apply_url", "_job_apply_email", "_job_salary_type",
      "_job_salary", "_job_max_salary", "_job_experience",
      "_job_career_level", "_job_qualification", "_job_video_url",
      "_job_photos", "_job_application_deadline_date", "_job_address",
      "_job_location", "_job_map_location">>

Letters ==
    {"a", "b", "c", "d", "e", "f", "g", "h", "i", "j", "k", "l", "m", "n",
     "o", "p", "q", "r", "s", "t", "u", "v", "w", "x", "y", "z", "A", "B",
     "C", "D", "E", "F", "G", "H", "I", "J", "K", "L", "M", "N", "O", "P",
     "Q", "R", "S", "T", "U", "V", "W", "X", "Y", "Z", "á", "é", "í", "ó",
     "ú", "ñ", "Á", "É", "Í", "Ó", "Ú", "Ñ"}

\* \w of a str pattern
IsWord(c) == c \in Letters \/ IsDigit(c) \/ c = "_"

\* dict.get(k, d)
Get(job, k, d) == IF k \in DOMAIN job THEN job[k] ELSE d

\* job[k] = v
Put(job, k, v) == [x \in (DOMAIN job) \cup {k} |-> IF x = k THEN v ELSE job[x]]

\* a or b on two str values
Or(a, b) == IF a # <<>> THEN a ELSE b

\* lines 96-100: extract_text, on the element select_one returns
extract_text(el) == IF el.found THEN GetText(el) ELSE <<>>

\* '\n'.join(ls)
RECURSIVE JoinNL(_)
JoinNL(ls) ==
    IF ls = <<>> THEN <<>>
    ELSE IF Len(ls) = 1 THEN ls[1]
    ELSE ls[1] \o Chars("\n") \o JoinNL(Tail(ls))

\* re.sub(r"\n+", "\n", s)
RECURSIVE CollapseNL(_)
CollapseNL(s) ==
    IF Len(s) < 2 THEN s
    ELSE IF s[1] = "\n" /\ s[2] = "\n" THEN CollapseNL(Tail(s))
    ELSE <<s[1]>> \o CollapseNL(Tail(s))

\* A child of the description container: a <p> with its text, a <ul> with the
\* texts of its <li>, a <br>, or a node with a single string.
Child(name, text, items) == [name |-> name, text |-> text, items |-> items]

\* "\u2022 " (the bullet is written by its code point)
W_bullet == <<"U+2022", " ">>

\* lines 125-133: the parts one child adds (a <br> was replaced by "\n")
RECURSIVE Bullets(_)
Bullets(items) ==
    IF items = <<>> THEN <<>>
    ELSE <<W_bullet \o Strip(Head(items))>> \o Bullets(Tail(items))

ChildParts(child) ==
    CASE child.name = "p" -> <<Strip(child.text)>>
      [] child.name = "ul" -> Bullets(child.items)
      [] child.name = "br" -> <<>>                 \* "\n".strip() is empty
      [] OTHER -> IF Strip(child.text) # <<>> THEN <<Strip(child.text)>> ELSE <<>>

RECURSIVE Parts(_)
Parts(children) ==
    IF children = <<>> THEN <<>>
    ELSE ChildParts(Head(children)) \o Parts(Tail(children))

\* lines 120-137: the description of the container
DetailDescription(children) == CollapseNL(JoinNL(Parts(children)))

IsNumChar(c) == IsDigit(c) \/ c \in {",", "."}

\* re.findall(r"[\d,.]+", s)[-1]: the last maximal run (<<>> when there is none)
LastNumber(s) ==
    IF \E i \in 1..Len(s) : IsNumChar(s[i])
    THEN LET e == CHOOSE i \in 1..Len(s) :
                     IsNumChar(s[i]) /\ \A j \in (i + 1)..Len(s) : ~IsNumChar(s[j])
             b == CHOOSE i \in 1..e :
                     /\ \A j \in i..e : IsNumChar(s[j])
                     /\ i = 1 \/ ~IsNumChar(s[i - 1])
         IN  SubSeq(s, b, e)
    ELSE <<>>

IsEmailChar(c) == IsWord(c) \/ c \in {".", "-"}

\* Does r"[\w\.-]+@[\w\.-]+\.\w+" match with its "@" at t[p]?  d is the dot
\* before the last label.
EmailDot(t, p, d) ==
    /\ d >= p + 2 /\ d < Len(t)
    /\ t[d] = "." /\ IsWord(t[d + 1])
    /\ \A j \in (p + 1)..d : IsEmailChar(t[j])

EmailAt(t, p) ==
    /\ t[p] = "@" /\ p > 1 /\ IsEmailChar(t[p - 1])
    /\ \E d \in 1..Len(t) : EmailDot(t, p, d)

RECURSIVE WordRunEnd(_, _)
WordRunEnd(t, i) == IF i < Len(t) /\ IsWord(t[i + 1]) THEN WordRunEnd(t, i + 1) ELSE i

RECURSIVE EmailRunStart(_, _)
EmailRunStart(t, i) ==
    IF i > 1 /\ IsEmailChar(t[i - 1]) THEN EmailRunStart(t, i - 1) ELSE i

\* re.search(r"[\w\.-]+@[\w\.-]+\.\w+", t).group(0), <<>> when there is no match
EmailSearch(t) ==
    IF \E p \in 1..Len(t) : EmailAt(t, p)
    THEN LET p == CHOOSE p \in 1..Len(t) :
                     EmailAt(t, p) /\ \A j \in 1..(p - 1) : ~EmailAt(t, j)
             d == CHOOSE d \in 1..Len(t) :
                     EmailDot(t, p, d) /\ \A j \in (d + 1)..Len(t) : ~EmailDot(t, p, j)
         IN  SubSeq(t, EmailRunStart(t, p - 1), WordRunEnd(t, d + 1))
    ELSE <<>>

\* calendar: a date is <<year, month, day>>
IsLeap(y) == (y % 4 = 0 /\ y % 100 # 0) \/ y % 400 = 0
DaysIn(y, m) ==
    CASE m = 2 -> IF IsLeap(y) THEN 29 ELSE 28
      [] m \in {4, 6, 9, 11} -> 30
      [] OTHER -> 31

\* An addition that takes every month to have 31 days.
AddDaysLongMonths(date, n) ==
    LET t == date[3] + n
    IN  IF t <= 31 THEN <<date[1], date[2], t>>
        ELSE IF date[2] < 12 THEN <<date[1], date[2] + 1, t - 31>>
        ELSE <<date[1] + 1, 1, t - 31>>

\* date + timedelta(days=n)
RECURSIVE AddDays(_, _)
AddDays(date, n) ==
    IF n = 0 THEN date
    ELSE LET y == date[1]
             m == date[2]
             d == date[3]
         IN  IF d < DaysIn(y, m) THEN AddDays(<<y, m, d + 1>>, n - 1)
             ELSE IF m < 12 THEN AddDays(<<y, m + 1, 1>>, n - 1)
             ELSE AddDays(<<y + 1, 1, 1>>, n - 1)

DigitChar(n) == Chars("0123456789")[n + 1]

\* the decimal digits of n, zero-padded to w places
RECURSIVE Padded(_, _)
Padded(n, w) == IF w = 0 THEN <<>> ELSE Padded(n \div 10, w - 1) \o <<DigitChar(n % 10)>>

\* date.strftime("%Y-%m-%d")
Strftime(date) == Padded(date[1], 4) \o Chars("-") \o Padded(date[2], 2) \o Chars("-") \o Padded(date[3], 2)

\* line 167: timedelta(days=30)
ExpiryDays == 30

\* The steps of get_job_details in program order; "goto" stands for lines
\* 109-112 (page.goto, page.content, BeautifulSoup).
DetailSteps ==
    <<"goto", "image", "description", "title", "category", "type", "salary", "location",
      "dates", "experience", "qualification", "career_level", "contact", "defaults">>

\* for span in data_spans: the first text with "experiencia" or "años"
IsExperience(t) == HasSub(Lower(t), Chars("experiencia")) \/ HasSub(Lower(t), Chars("años"))
StripAll(ts) == [i \in 1..Len(ts) |-> Strip(ts[i])]

\* One step of lines 109-206 on the record built so far.
DetailStep(s, job, pg) ==
    CASE s = "image" ->
           IF pg.image.found THEN Put(job, "_job_featured_image", pg.image.href) ELSE job
      [] s = "description" ->
           IF pg.description.found
           THEN Put(job, "_job_description", DetailDescription(pg.description.children))
           ELSE job
      [] s = "title" -> Put(job, "_job_title", extract_text(pg.title))
      [] s = "category" -> Put(job, "_job_category", extract_text(pg.category))
      [] s = "type" ->
           LET text == Lower(GetText(pg.type))
           IN  Put(job, "_job_type",
                   IF pg.type.found /\ HasSub(text, Chars("medio tiempo")) THEN Chars("Medio tiempo")
                   ELSE IF pg.type.found /\ HasSub(text, Chars("remoto")) THEN Chars("Remoto")
                   ELSE Chars("Tiempo completo"))
      [] s = "salary" ->
           LET salary_text == extract_text(pg.salary)
               j1 == Put(job, "_job_salary", salary_text)
           IN  IF salary_text # <<>> /\ LastNumber(salary_text) # <<>>
               THEN Put(Put(j1, "_job_salary_type", Chars("Mensual")),
                        "_job_max_salary", LastNumber(salary_text))
               ELSE j1
      [] s = "location" ->
           Put(Put(job, "_job_location", extract_text(pg.location)),
               "_job_address", extract_text(pg.location))
      [] s = "dates" ->
           LET expiry_date == Strftime(AddDays(pg.today, ExpiryDays))
           IN  Put(Put(job, "_job_expiry_date", expiry_date),
                   "_job_application_deadline_date", expiry_date)
      [] s = "experience" ->
           Put(job, "_job_experience",
               FirstWith(StripAll(pg.experience),
                         {t \in Range(StripAll(pg.experience)) : IsExperience(t)},
                         job["_job_experience"]))
      [] s = "qualification" -> Put(job, "_job_qualification", extract_text(pg.qualification))
      [] s = "career_level" ->
           IF pg.career_level.found
           THEN Put(job, "_job_career_level", GetText(pg.career_level))
           ELSE job
      [] s = "contact" ->
           LET j1 == IF EmailSearch(pg.contact.text) # <<>>
                     THEN Put(job, "_job_apply_email", EmailSearch(pg.contact.text))
                     ELSE job
           IN  IF pg.contact.found /\ pg.contact.href # <<>>
               THEN Put(j1, "_job_apply_url", pg.contact.href)
               ELSE j1
      [] s = "defaults" ->
           [k \in DOMAIN job |->
               CASE k = "_job_featured" -> Chars("1")
                 [] k \in {"_job_filled", "_job_urgent"} -> Chars("0")
                 [] k \in {"_job_gender", "_job_video_url", "_job_photos",
                           "_job_map_location"} -> <<>>
                 [] k = "_job_tag" -> Chars("Costa Rica")
                 [] k = "_job_apply_type" -> Chars("external")
                 [] OTHER -> job[k]]
      [] OTHER -> job

\* The record after the first n steps have run.
RECURSIVE DetailsUpTo(_, _)
DetailsUpTo(pg, n) ==
    IF n = 0 THEN [k \in Range(HEADERS) |-> <<>>]            \* line 107
    ELSE DetailStep(DetailSteps[n], DetailsUpTo(pg, n - 1), pg)

StepIndex(steps, s) == CHOOSE n \in 1..Len(steps) : steps[n] = s

\* lines 105-213: get_job_details on a page where step `raises` raises ("none":
\* no step does).  The except clause returns the record as it stands.
get_job_details(pg, raises) ==
    IF raises = "none" THEN DetailsUpTo(pg, Len(DetailSteps))
    ELSE DetailsUpTo(pg, StepIndex(DetailSteps, raises) - 1)

\* The steps that look something up and so may raise.
DetailRaises == {"none"} \cup (Range(DetailSteps) \ {"dates", "defaults"})

\* A description container, found or not.
Desc(children) == [found |-> TRUE, children |-> children]
NoDesc == [found |-> FALSE, children |-> <<>>]

\* soup.get_text() and the og:url meta of a page
Contact(text, found, content) == [text |-> text, found |-> found, href |-> content]

\* The dates a run may happen on.
Todays == {<<2025, 10, 5>>, <<2024, 1, 31>>, <<2024, 12, 15>>}

DetailPageFull(today) ==
    [ image |-> El(<<>>, Chars("/img/empleo.png")),
      description |-> Desc(<<Child("p", Chars(" Se busca "), <<>>), Child("br", <<>>, <<>>),
                             Child("p", <<>>, <<>>),
                             Child("ul", <<>>, <<Chars("Python"), Chars(" SQL ")>>),
                             Child("b", Chars("Enviar CV"), <<>>)>>),
      title |-> El(Chars(" Dev\n"), <<>>), category |-> El(Chars("QA"), <<>>),
      type |-> El(Chars("Medio Tiempo / remoto"), <<>>), salary |-> El(Chars("₡450.000 - ₡600,50 mensual"), <<>>),
      location |-> El(Chars("Heredia"), <<>>), today |-> today,
      experience |-> <<Chars("Acme"), Chars(" 2 AÑOS "), Chars("experiencia")>>,
      qualification |-> El(Chars("Bachiller"), <<>>), career_level |-> El(Chars("Senior"), <<>>),
      contact |-> Contact(Chars("CV a rh.cr@acme-sa.co.cr. Gracias"), TRUE, Chars("https://e.co/o/1")) ]

DetailPageBare(today) ==
    [ image |-> NoEl, description |-> NoDesc, title |-> NoEl, category |-> NoEl,
      type |-> NoEl, salary |-> NoEl, location |-> NoEl, today |-> today,
      experience |-> <<>>, qualification |-> NoEl, career_level |-> NoEl,
      contact |-> Contact(Chars("sin correo @ x"), FALSE, <<>>) ]

DetailPageMixed(today) ==
    [ image |-> NoEl, description |-> Desc(<<Child("text", Chars("Enviar CV"), <<>>)>>),
      title |-> El(<<>>, <<>>), category |-> NoEl,
      type |-> El(Chars("Trabajo REMOTO"), <<>>), salary |-> El(Chars("A convenir"), <<>>),
      location |-> NoEl, today |-> today,
      experience |-> <<Chars("Acme")>>, qualification |-> NoEl, career_level |-> NoEl,
      contact |-> Contact(Chars("sin correo @ x"), TRUE, <<>>) ]

DetailPages ==
    {DetailPageFull(t) : t \in Todays} \cup {DetailPageBare(t) : t \in Todays}
        \cup {DetailPageMixed(t) : t \in Todays}

\* One call of get_job_details(page, job_url).
DetailsCall ==
    /\ prog = "details" /\ pc = "call"
    /\ \E pg \in DetailPages, r \in DetailRaises :
          /\ soup' = pg
          /\ raised' = r
          /\ err' = IF r = "none" THEN "none" ELSE "exception"
          /\ ret' = get_job_details(pg, r)
    /\ pc' = "done"
    /\ UNCHANGED <<prog, jobs, cards, job_in, idVars, simpleVars, combVars, mainVars>>
    /\ UNCHANGED objVars

(***************************************************************************)
(* elempleo_full_scraper.py: enrich_with_detail                            *)
(***************************************************************************)
\* lines 35-43: CSV_FIELDS
CSV_FIELDS ==
    <<"featured_image", "featured", "filled", "urgent", "category", "type",
      "tag", "expiry_date", "gender", "apply_type", "apply_url",
      "apply_email", "salary_type", "max_salary", "experience",
      "career_level", "qualification", "video_url", "photos",
      "application_deadline_date", "address", "map_location">>

\* s.replace(old, "")
RECURSIVE Remove(_, _)
Remove(s, old) ==
    IF Len(s) < Len(old) THEN s
    ELSE IF StartsWith(s, old) THEN Remove(SubSeq(s, Len(old) + 1, Len(s)), old)
    ELSE <<s[1]>> \o Remove(Tail(s), old)

\* A fill that resets the dict to empty values.
EnsureDefaultsFresh(job) == [k \in (DOMAIN job) \cup Range(CSV_FIELDS) |-> <<>>]

\* lines 118-120: for k in CSV_FIELDS: if k not in job: job[k] = ""
EnsureDefaults(job) ==
    [k \in (DOMAIN job) \cup Range(CSV_FIELDS) |-> IF k \in DOMAIN job THEN job[k] ELSE <<>>]

\* The steps of enrich_with_detail's try block in program order; "goto" stands
\* for lines 124-127.
EnrichSteps ==
    <<"goto", "image", "description", "category", "type", "salary", "location", "dates",
      "experience", "contact", "flags">>

\* A classification that puts an email before a link.
ApplyTypeEmailFirst(job) ==
    IF Get(job, "apply_email", <<>>) # <<>> THEN Chars("email")
    ELSE IF Get(job, "apply_url", <<>>) # <<>> THEN Chars("website")
    ELSE <<>>

\* line 187: "website" if job.get("apply_url") else ("email" if
\* job.get("apply_email") else "")
ApplyType(job) ==
    IF Get(job, "apply_url", <<>>) # <<>> THEN Chars("website")
    ELSE IF Get(job, "apply_email", <<>>) # <<>> THEN Chars("email")
    ELSE <<>>

\* One step of lines 129-186 on the dict as it stands.
EnrichStep(s, job, pg) ==
    CASE s = "image" ->
           IF pg.image.found /\ pg.image.href # <<>>
           THEN Put(job, "featured_image", pg.image.href) ELSE job
      [] s = "description" ->
           IF pg.description.found THEN Put(job, "description", GetText(pg.description))
           ELSE job
      [] s = "category" ->
           Put(job, "category", Or(extract_text(pg.category), Get(job, "category", <<>>)))
      [] s = "type" -> Put(job, "type", Or(extract_text(pg.type), Get(job, "type", <<>>)))
      [] s = "salary" ->
           LET salary_text == Or(extract_text(pg.salary), Get(job, "salary", <<>>))
               j1 == Put(job, "salary", salary_text)
           IN  IF salary_text # <<>> /\ LastNumber(salary_text) # <<>>
               THEN Put(Put(j1, "salary_type", Chars("monthly")),
                        "max_salary", LastNumber(salary_text))
               ELSE j1
      [] s = "location" ->
           LET j1 == Put(job, "location",
                         Or(extract_text(pg.location), Get(job, "location", <<>>)))
           IN  Put(j1, "address", Or(extract_text(pg.address), j1["location"]))
      [] s = "dates" ->
           LET j1 == Put(job, "application_deadline_date",
                         Or(extract_text(pg.dates),
                            Get(job, "application_deadline_date", <<>>)))
           IN  Put(j1, "expiry_date",
                   Or(j1["application_deadline_date"], Get(j1, "expiry_date", <<>>)))
      [] s = "experience" ->
           LET j1 == Put(job, "experience",
                         Or(extract_text(pg.experience), Get(job, "experience", <<>>)))
               j2 == Put(j1, "qualification",
                         Or(extract_text(pg.qualification), Get(j1, "qualification", <<>>)))
           IN  Put(j2, "career_level",
                   Or(extract_text(pg.career_level), Get(j2, "career_level", <<>>)))
      [] s = "contact" ->
           LET j1 == IF EmailSearch(pg.contact.text) # <<>>
                     THEN Put(job, "apply_email", EmailSearch(pg.contact.text))
                     ELSE job
               href == pg.contact.href
           IN  IF pg.contact.found /\ href # <<>>
               THEN LET j2 == Put(j1, "apply_url", href)
                    IN  IF StartsWith(href, Chars("mailto:")) /\ Get(j2, "apply_email", <<>>) = <<>>
                        THEN Put(j2, "apply_email", Remove(href, Chars("mailto:")))
                        ELSE j2
               ELSE j1
      [] s = "flags" ->
           LET j1 == Put(job, "featured", Get(job, "featured", Chars("false")))
               j2 == Put(j1, "filled", Get(j1, "filled", Chars("false")))
               j3 == Put(j2, "urgent", Get(j2, "urgent", Chars("false")))
               j4 == Put(j3, "apply_type", ApplyType(j3))
           IN  Put(j4, "map_location", <<>>)
      [] OTHER -> job

\* The dict after the first n steps have run.
RECURSIVE EnrichUpTo(_, _, _)
EnrichUpTo(job, pg, n) ==
    IF n = 0 THEN EnsureDefaults(job)
    ELSE EnrichStep(EnrichSteps[n], EnrichUpTo(job, pg, n - 1), pg)

\* lines 116-195: enrich_with_detail on a page where step `raises` raises
\* ("none": no step does); both except clauses only print.
enrich_with_detail(pg, job, raises) ==
    IF raises = "none" THEN EnrichUpTo(job, pg, Len(EnrichSteps))
    ELSE EnrichUpTo(job, pg, StepIndex(EnrichSteps, raises) - 1)

\* The steps that look something up and so may raise.
EnrichRaises == {"none"} \cup (Range(EnrichSteps) \ {"flags"})

EnrichPageFull ==
    [ image |-> El(<<>>, Chars("/img/empleo.png")), description |-> El(Chars(" Se busca "), <<>>),
      category |-> El(Chars("QA"), <<>>), type |-> El(Chars("Trabajo REMOTO"), <<>>),
      salary |-> El(Chars("₡450.000 - ₡600,50 mensual"), <<>>), location |-> El(Chars("Heredia"), <<>>),
      address |-> El(Chars("Calle 5"), <<>>), dates |-> El(Chars("2025-10-05"), <<>>),
      experience |-> El(Chars(" 2 AÑOS "), <<>>), qualification |-> El(Chars("Bachiller"), <<>>),
      career_level |-> El(Chars("Senior"), <<>>),
      contact |-> Contact(Chars("CV a rh.cr@acme-sa.co.cr. Gracias"), TRUE, Chars("/apply/1")) ]

EnrichPageBare ==
    [ image |-> El(<<>>, <<>>), description |-> NoEl, category |-> NoEl, type |-> NoEl,
      salary |-> NoEl, location |-> NoEl, address |-> NoEl, dates |-> NoEl,
      experience |-> NoEl, qualification |-> NoEl, career_level |-> NoEl,
      contact |-> Contact(Chars("sin correo @ x"), FALSE, <<>>) ]

EnrichPageMailto ==
    [ image |-> NoEl, description |-> NoEl, category |-> NoEl, type |-> NoEl,
      salary |-> El(Chars("A convenir"), <<>>), location |-> NoEl, address |-> NoEl, dates |-> NoEl,
      experience |-> NoEl, qualification |-> NoEl, career_level |-> NoEl,
      contact |-> Contact(Chars("sin correo @ x"), TRUE, Chars("mailto:rh@acme.cr")) ]

EnrichPageEmail ==
    [EnrichPageBare EXCEPT !.contact = Contact(Chars("CV a rh.cr@acme-sa.co.cr. Gracias"), FALSE, <<>>)]

EnrichPages == {EnrichPageFull, EnrichPageBare, EnrichPageMailto, EnrichPageEmail}

\* The dicts main hands over: an empty one, the record get_job_basic_api
\* builds (lines 97-111), and one that already carries detail fields.
EnrichInputs ==
    { <<>>,
      [id |-> Chars("101"), title |-> Chars(" Dev\n"), company |-> Chars("Acme"), location |-> Chars("Heredia"),
       salary |-> Chars("₡450"), publish_date |-> Chars("hoy"), description |-> Chars("desc"),
       url |-> Chars("http://x/2")],
      [featured |-> Chars("true"), apply_email |-> Chars("info@elempleo.com"), expiry_date |-> Chars("2025-10-05")] }

\* One call of enrich_with_detail(page, job).
EnrichCall ==
    /\ prog = "enrich" /\ pc = "call"
    /\ \E pg \in EnrichPages, job \in EnrichInputs, r \in EnrichRaises, e \in {"timeout", "exception"} :
          /\ soup' = pg
          /\ job_in' = job
          /\ raised' = r
          /\ err' = IF r = "none" THEN "none" ELSE IF r = "goto" THEN e ELSE "exception"
          /\ ret' = enrich_with_detail(pg, job, r)
    /\ pc' = "done"
    /\ UNCHANGED <<prog, jobs, cards, idVars, simpleVars, combVars, mainVars>>
    /\ UNCHANGED objVars

(***************************************************************************)
(* ElempleoQuickViewScraper (elempleo_scraper.py)                          *)
(***************************************************************************)
\* lines 53-60
quick_view_selectors ==
    <<"button:has-text(\"Vista rápida\")", "a:has-text(\"Vista rápida\")",
      "[class*=\"quick-view\"]", "[class*=\"vista-rapida\"]",
      "button[class*=\"quick\"]", ".js-quick-view">>
\* lines 157-163
modal_selectors ==
    <<"[class*=\"modal\"]", "[class*=\"popup\"]", "[class*=\"quick-view\"]",
      "[role=\"dialog\"]", ".overlay-content">>
title_selectors == <<"h1", "h2", ".job-title", "[class*=\"title\"]">>
company_selectors ==
    <<".company", ".company-name", "[class*=\"empresa\"]",
      "[class*=\"company\"]">>
location_selectors ==
    <<".location", "[class*=\"ubicacion\"]", "[class*=\"location\"]">>
desc_selectors ==
    <<".description", ".job-description", "[class*=\"descripcion\"]",
      "article", ".content">>
salary_selectors == <<".salary", "[class*=\"salario\"]", "[class*=\"sueldo\"]">>
date_selectors ==
    <<".date", ".posted-date", "time", "[class*=\"fecha\"]",
      "[class*=\"publicado\"]">>

\* What a lookup inside the modal gives: no element, an exception, or an
\* element with its inner_text() (for the link: its href).
Miss == [k |-> "miss", text |-> <<>>]
Raise == [k |-> "raise", text |-> <<>>]
Txt(t) == [k |-> "text", text |-> t]

\* A quick-view snapshot: the modal selectors that are on the page, whether the
\* modal lookup raises, the outcome of each selector inside the modal, the
\* offer link, and modal.inner_text() (text_raises: that call raises).
Lookup(md, s) == IF s \in DOMAIN md.sel THEN md.sel[s] ELSE Miss

Months ==
    {Chars("Oct"), Chars("Nov"), Chars("Dic"), Chars("Jan"), Chars("Feb"), Chars("Mar"),
     Chars("Apr"), Chars("May"), Chars("Jun"), Chars("Jul"), Chars("Aug"), Chars("Sep")}

TitleOk(t) == t # <<>> /\ Len(t) > 3
CompanyOk(t) == t # <<>> /\ Len(t) > 1
LocationOk(t) == t # <<>>
DescOk(t) == Len(t) > 100
HasMoney(t) == HasSub(t, Chars("₡")) \/ HasSub(t, Chars("$")) \/ HasSub(Lower(t), Chars("confidencial"))
SalaryOk(t) == t # <<>> /\ HasMoney(t)
DateOk(t) ==
    /\ t # <<>>
    /\ HasSub(t, Chars("2025")) \/ HasSub(t, Chars("2024")) \/ HasSub(t, Chars("Oct")) \/ HasSub(Lower(t), Chars("hace"))

\* The test each candidate loop applies to a candidate's stripped text
\* (lines 182, 195, 208, 221, 234, 247).
Accepts(field, t) ==
    CASE field = "title" -> TitleOk(t)
      [] field = "company" -> CompanyOk(t)
      [] field = "location" -> LocationOk(t)
      [] field = "description" -> DescOk(t)
      [] field = "salary" -> SalaryOk(t)
      [] field = "posting_date" -> DateOk(t)

\* The candidate loops of lines 177-251: the stripped text of the first
\* candidate, in list order, whose element exists, does not raise and passes
\* the field's test; old when there is none.
Cascade(md, sels, field, old) ==
    LET hit(k) == Lookup(md, sels[k]).k = "text"
                  /\ Accepts(field, Strip(Lookup(md, sels[k]).text))
    IN  IF \E k \in 1..Len(sels) : hit(k)
        THEN Strip(Lookup(md, sels[CHOOSE k \in 1..Len(sels) :
                                      hit(k) /\ \A j \in 1..(k - 1) : ~hit(j)]).text)
        ELSE old

\* lines 165-173: the modal the cascade settles on ("body" when none is on the
\* page, "raise" when a lookup raises before one is found)
RECURSIVE FindModal(_, _)
FindModal(md, sels) ==
    IF sels = <<>> THEN "body"
    ELSE IF Head(sels) \in md.bad THEN "raise"
    ELSE IF Head(sels) \in md.present THEN Head(sels)
    ELSE FindModal(md, Tail(sels))

\* lines 253-261: the offer link
ModalUrl(md, old) ==
    IF md.link.k = "text" /\ md.link.text # <<>> THEN AbsUrl(ElempleoBase, md.link.text)
    ELSE old

\* re.search(r'\d{1,2}\s+(Oct|Nov|...)', line)
HasDayMonth(l) ==
    \E i \in 1..Len(l) :
        /\ IsDigit(l[i])
        /\ LET k == SkipSpace(l, i + 1)
           IN  k > i + 1 /\ k + 2 <= Len(l) /\ SubSeq(l, k, k + 2) \in Months

QuickCity(l) ==
    HasAny(l, {Chars("San José"), Chars("Heredia"), Chars("Cartago"), Chars("Alajuela"), Chars("Limón"), Chars("Guanacaste"),
               Chars("Puntarenas")})
QuickSalaryLine(l) == HasMoney(l) /\ (HasDigit(l) \/ HasSub(Lower(l), Chars("confidencial")))
QuickDateLine(l) == HasSub(Lower(l), Chars("publicado")) \/ HasDayMonth(l)

\* lines 266-298: the text fallback, on the record the selectors gave
TextFallback(job, modal_text) ==
    LET lines == Lines(modal_text)
        CompanyLine(l) ==
            /\ l # job.title /\ Len(l) > 3 /\ Len(l) < 100
            /\ ~HasAny(Lower(l), {Chars("publicado"), Chars("vista"), Chars("aplicar")})
        company == IF job.company = <<>> /\ Len(lines) > 1
                   THEN FirstWith(Slice(lines, 1, 5), {l \in Range(lines) : CompanyLine(l)}, job.company)
                   ELSE job.company
        location == IF job.location = <<>> THEN FirstWith(lines, {l \in Range(lines) : QuickCity(l)}, job.location)
                    ELSE job.location
        salary == IF job.salary = <<>> THEN FirstWith(lines, {l \in Range(lines) : QuickSalaryLine(l)}, job.salary)
                  ELSE job.salary
        posting_date == IF job.posting_date = <<>>
                        THEN FirstWith(lines, {l \in Range(lines) : QuickDateLine(l)}, job.posting_date)
                        ELSE job.posting_date
    IN  [job EXCEPT !.company = company, !.location = location, !.salary = salary,
                    !.posting_date = posting_date]

\* line 264: `if not job['company'] or not job['location']`
NeedsFallback(job) == job.company = <<>> \/ job.location = <<>>

\* lines 145-153
EmptyQuickJob ==
    [title |-> <<>>, company |-> <<>>, location |-> <<>>, description |-> <<>>,
     salary |-> <<>>, posting_date |-> <<>>, url |-> <<>>]

\* lines 175-261: the selector part
BySelectors(md) ==
    [title |-> Cascade(md, title_selectors, "title", <<>>),
     company |-> Cascade(md, company_selectors, "company", <<>>),
     location |-> Cascade(md, location_selectors, "location", <<>>),
     description |-> Cascade(md, desc_selectors, "description", <<>>),
     salary |-> Cascade(md, salary_selectors, "salary", <<>>),
     posting_date |-> Cascade(md, date_selectors, "posting_date", <<>>),
     url |-> ModalUrl(md, <<>>)]

\* lines 143-306: _extract_from_quick_view
ExtractFromQuickView(md) ==
    IF FindModal(md, modal_selectors) = "raise" THEN EmptyQuickJob      \* line 303
    ELSE LET job == BySelectors(md)
         IN  IF NeedsFallback(job) /\ ~md.text_raises THEN TextFallback(job, md.text)
             ELSE job

Modal(present, bad, sel, link, text, text_raises) ==
    [present |-> present, bad |-> bad, sel |-> sel, link |-> link, text |-> text,
     text_raises |-> text_raises]

Long101 == [i \in 1..101 |-> "x"]
Long100 == [i \in 1..100 |-> "x"]
\* every field but the salary resolves by selector; the text has a salary line
MD_Sel ==
    Modal({"[class*=\"modal\"]"}, {},
          ("h1" :> Txt(Chars("Dev Python"))) @@ (".company" :> Txt(Chars("Acme")))
              @@ (".location" :> Txt(Chars("Heredia"))) @@ (".description" :> Txt(Long101))
              @@ (".date" :> Txt(Chars("hace 2 días"))),
          Txt(Chars("/empleo/1")), Chars("Dev Python\nAcme\nHeredia\n₡450,000 mensual"), FALSE)

\* no selector resolves; the visible text has it all
MD_Text == Modal({}, {}, <<>>, Miss, Chars("Dev Python\nAcme S.A.\nSan José\n₡450,000 mensual\nPublicado 5 Oct"), FALSE)

\* lookups raise; later candidates resolve
MD_Raise ==
    Modal({"[role=\"dialog\"]"}, {},
          ("h1" :> Raise) @@ ("h2" :> Txt(Chars("Analista QA")))
              @@ (".company" :> Raise) @@ (".company-name" :> Raise)
              @@ ("[class*=\"empresa\"]" :> Raise) @@ ("[class*=\"company\"]" :> Raise)
              @@ (".location" :> Raise) @@ ("[class*=\"ubicacion\"]" :> Txt(Chars("Cartago")))
              @@ (".salary" :> Txt(Chars("Buen salario"))) @@ ("[class*=\"salario\"]" :> Txt(Chars(" $ 900 "))),
          Raise, Chars("Dev Python\nAcme\nHeredia\n₡450,000 mensual"), TRUE)

\* the modal lookup itself raises
MD_Outer == Modal({}, {"[class*=\"popup\"]"}, ("h1" :> Txt(Chars("Dev Python"))), Miss, Chars("Dev Python\nAcme\nHeredia\n₡450,000 mensual"), FALSE)

\* candidates that are found but rejected
MD_Short ==
    Modal({".overlay-content"}, {},
          ("h1" :> Txt(Chars("QA"))) @@ (".job-title" :> Txt(<<>>))
              @@ ("[class*=\"title\"]" :> Txt(Chars(" Jefe de Obra ")))
              @@ (".description" :> Txt(Long100)) @@ ("article" :> Txt(Long101))
              @@ (".salary" :> Txt(Chars("Buen salario"))),
          Txt(Chars("http://x/2")), Chars("Jefe de Obra\nVista rápida\nBeta\n$ a convenir\nSalario Confidencial\n12  Nov"), FALSE)

Modals == {MD_Sel, MD_Text, MD_Raise, MD_Outer, MD_Short}

\* One call of _extract_from_quick_view(page).
ModalCall ==
    /\ prog = "modal" /\ pc = "call"
    /\ \E md \in Modals :
          /\ soup' = md
          /\ ret' = ExtractFromQuickView(md)
          /\ err' = IF FindModal(md, modal_selectors) = "raise" THEN "exception" ELSE "none"
    /\ pc' = "done"
    /\ UNCHANGED <<prog, jobs, cards, idVars, simpleVars, combVars, detVars, mainVars>>
    /\ UNCHANGED objVars

\* A quick-view button: the modal its click opens, and whether the click raises.
Button(md, raises) == [modal |-> md, raises |-> raises]

\* What the page gives _close_modal: per close selector "absent", "hidden",
\* "visible" or "raises", and whether pressing Escape raises.
Closers(states, escape) == [buttons |-> states, escape |-> escape]

\* A listing page: the buttons each selector finds, the selectors that raise,
\* and what closes its modal.
QuickPage(btn, bad, closers) == [btn |-> btn, bad |-> bad, closers |-> closers]

Located(pg, s) == IF s \in DOMAIN pg.btn THEN pg.btn[s] ELSE <<>>

QuickPages ==
    { QuickPage(<<>>, {}, Closers(<<>>, "ok")),
      QuickPage((quick_view_selectors[1] :>
                    <<Button(MD_Sel, "none"), Button(MD_Text, "none"),
                      Button(MD_Raise, "none")>>)
                @@ (quick_view_selectors[2] :> <<Button(MD_Short, "none")>>), {},
                Closers(<<"absent", "hidden", "visible", "absent", "absent", "absent">>, "ok")),
      QuickPage((quick_view_selectors[2] :>
                    <<Button(MD_Short, "none"), Button(MD_Sel, "none")>>), {},
                Closers(<<"absent", "absent", "absent", "absent", "absent", "absent">>, "ok")),
      QuickPage((quick_view_selectors[3] :>
                    <<Button(MD_Sel, "none"), Button(MD_Short, "none")>>),
                {quick_view_selectors[1]},
                Closers(<<"raises", "raises", "raises", "raises", "raises", "raises">>, "raises")),
      QuickPage((quick_view_selectors[1] :>
                    <<Button(MD_Short, "click"), Button(MD_Outer, "none"),
                      Button(MD_Short, "none")>>), {},
                Closers(<<"raises", "absent", "absent", "absent", "absent", "hidden">>, "ok")),
      QuickPage((quick_view_selectors[1] :>
                    <<Button(MD_Text, "screenshot"), Button(MD_Sel, "none")>>), {},
                Closers(<<"absent", "raises", "absent", "absent", "absent", "visible">>, "raises")) }

\* lines 62-71: the quick-view button cascade
RECURSIVE FindQuickViewButtons(_, _)
FindQuickViewButtons(pg, sels) ==
    IF sels = <<>> THEN <<>>
    ELSE IF Head(sels) \in pg.bad THEN FindQuickViewButtons(pg, Tail(sels))
    ELSE IF Located(pg, Head(sels)) # <<>> THEN Located(pg, Head(sels))
    ELSE FindQuickViewButtons(pg, Tail(sels))

\* line 117: `if job and job['title']`
KeepModal(job) == job.title # <<>>

\* lines 42-85: navigate and find the quick-view buttons
QuickStart ==
    /\ prog = "quick" /\ pc = "goto"
    /\ idx' = 0
    /\ \/ \E pg \in QuickPages :
            /\ soup' = pg
            /\ cards' = FindQuickViewButtons(pg, quick_view_selectors)
            /\ IF cards' = <<>>
               THEN \/ pc' = "done" /\ ret' = <<>> /\ err' = err      \* line 82: return []
                    \/ pc' = "finally" /\ ret' = ret /\ err' = "exception"
               ELSE pc' = "loop" /\ ret' = ret /\ err' = err
       \/ /\ pc' = "finally"                                  \* page.goto raises
          /\ err' = "exception"
          /\ UNCHANGED <<soup, cards, ret>>
    /\ UNCHANGED <<prog, jobs, site, max_jobs, attempted, failed, idVars, simpleVars,
                   detVars, mainVars>>
    /\ browser_log' = IF pc' = "done" THEN Close(<<"launch", "page">>, err)    \* line 82
                      ELSE <<"launch", "page">>
    /\ UNCHANGED <<kept, modal_log>>

\* A close call that lets the exception of a failing lookup through.
CloseModalUnguarded(closers) ==
    IF \E k \in 1..Len(closers.buttons) :
           /\ closers.buttons[k] \in {"raises", "visible"}
           /\ \A j \in 1..(k - 1) : closers.buttons[j] \notin {"raises", "visible"}
           /\ closers.buttons[k] = "raises"
    THEN "raised"
    ELSE IF \E k \in 1..Len(closers.buttons) : closers.buttons[k] = "visible" THEN "button"
    ELSE IF closers.escape = "raises" THEN "raised" ELSE "escape"

\* lines 308-334: _close_modal: the first close button that is there and
\* visible is clicked (a lookup or click that raises is passed over); with
\* none, Escape is pressed, and an exception of that is dropped
CloseModal(closers) ==
    IF \E k \in 1..Len(closers.buttons) : closers.buttons[k] = "visible" THEN "button"
    ELSE IF closers.escape = "raises" THEN "nothing" ELSE "escape"

\* lines 124 and 127-130 when _close_modal is called after step `raises` of
\* the pass raised ("none": no step did): the calls of _close_modal, and how
\* the pass ends.  An exception out of _close_modal reaches the except clause
\* of the pass, which calls _close_modal again, and from there the outer one.
ClosePass(closers, raises) ==
    LET way == CloseModal(closers)
    IN  [events |-> IF way = "raised" /\ raises = "none" THEN <<way, way>> ELSE <<way>>,
         pc |-> IF way = "raised" THEN "finally" ELSE "loop",
         fatal |-> way = "raised"]

\* One pass of `for idx in range(min(max_jobs, len(quick_view_buttons)))`
QuickStep ==
    /\ prog = "quick" /\ pc = "loop"
    /\ idx < Truncated(cards, max_jobs)
    /\ idx' = idx + 1
    /\ browser_log' = Touch(browser_log)
    /\ IF quick_view_selectors[1] \in soup.bad
       THEN LET end == ClosePass(soup.closers, "locate")          \* line 91 raises
            IN  /\ jobs' = jobs
                /\ modal_log' = modal_log \o end.events
                /\ pc' = end.pc
                /\ err' = IF end.fatal THEN "exception" ELSE err
       ELSE LET current_buttons == Located(soup, quick_view_selectors[1])
            IN  IF idx >= Len(current_buttons)
                THEN /\ pc' = "finally" /\ jobs' = jobs                 \* line 95: break
                     /\ UNCHANGED <<modal_log, err>>
                ELSE LET button == current_buttons[idx + 1]
                         job == ExtractFromQuickView(button.modal)
                         end == ClosePass(soup.closers, button.raises)
                     IN  /\ jobs' = IF button.raises = "none" /\ KeepModal(job)
                                    THEN Append(jobs, job) ELSE jobs
                         /\ modal_log' = modal_log \o <<"click">> \o end.events
                         /\ pc' = end.pc
                         /\ err' = IF end.fatal THEN "exception" ELSE err
    /\ UNCHANGED <<prog, ret, soup, cards, site, max_jobs, attempted, failed,
                   idVars, simpleVars, detVars, mainVars, kept>>

\* The loop has run min(max_jobs, len(quick_view_buttons)) times.
QuickExit ==
    /\ prog = "quick" /\ pc = "loop"
    /\ idx >= Truncated(cards, max_jobs)
    /\ pc' = "finally"
    /\ UNCHANGED <<prog, err, ret, cardVars, combVars, idVars, simpleVars, detVars, mainVars>>
    /\ UNCHANGED objVars

\* lines 134-141: finally: browser.close(); return self.jobs
QuickFinally ==
    /\ prog = "quick" /\ pc = "finally"
    /\ ret' = jobs
    /\ pc' = "done"
    /\ UNCHANGED <<prog, err, cardVars, combVars, idVars, simpleVars, detVars, mainVars>>
    /\ browser_log' = Close(browser_log, err)
    /\ UNCHANGED <<kept, modal_log>>

(***************************************************************************)
(* Specification                                                           *)
(***************************************************************************)
(***************************************************************************)
(* save_to_csv (combined_scraper.py, scrape.py, elempleo_full_scraper.py): *)
(* csv.DictWriter on a file opened with newline='' and utf-8-sig           *)
(***************************************************************************)
\* Python None, as a value that no str equals.
None == <<"None">>

\* The file when open() was never reached.
NoFile == <<"no file">>

\* encoding='utf-8-sig': the byte order mark the codec writes first.
BOM == <<"U+FEFF">>

\* What csv.writer writes for the value of key f: '' for a missing key
\* (restval) and for None, str(v) for a bool, the text itself for a str.
\* bools are the keys that hold a bool.
Cell(rec, f, bools) ==
    IF f \notin DOMAIN rec THEN <<>>
    ELSE IF f \in bools THEN (IF rec[f] THEN Chars("True") ELSE Chars("False"))
    ELSE IF rec[f] = None THEN <<>>
    ELSE rec[f]

\* QUOTE_MINIMAL of the excel dialect: a field is quoted when it holds the
\* delimiter, the quote character or a character of the line terminator.
NeedsQuote(s) == \E i \in 1..Len(s) : s[i] \in {",", "\"", "\r", "\n"}

\* doublequote=True
RECURSIVE Doubled(_)
Doubled(s) ==
    IF s = <<>> THEN <<>>
    ELSE (IF Head(s) = "\"" THEN <<"\"", "\"">> ELSE <<Head(s)>>) \o Doubled(Tail(s))

\* One field as written; a row's only field is quoted when it is empty.
WriteField(s, alone) ==
    IF NeedsQuote(s) \/ (alone /\ s = <<>>) THEN <<"\"">> \o Doubled(s) \o <<"\"">>
    ELSE s

\* ','.join(fields)
RECURSIVE JoinComma(_)
JoinComma(fs) ==
    IF fs = <<>> THEN <<>>
    ELSE IF Len(fs) = 1 THEN fs[1]
    ELSE fs[1] \o <<",">> \o JoinComma(Tail(fs))

\* writer.writerow(cells): the fields and the line terminator '\r\n'
WriteRow(cells) ==
    JoinComma([i \in 1..Len(cells) |-> WriteField(cells[i], Len(cells) = 1)])
        \o <<"\r", "\n">>

\* DictWriter with extrasaction='raise': a key outside fieldnames is a ValueError.
HasExtra(fieldnames, rec) == (DOMAIN rec) \ Range(fieldnames) # {}

\* writer.writerows(jobs): the rows up to the first record that raises
RECURSIVE WriteRows(_, _, _)
WriteRows(fieldnames, js, bools) ==
    IF js = <<>> \/ HasExtra(fieldnames, Head(js)) THEN <<>>
    ELSE WriteRow([i \in 1..Len(fieldnames) |-> Cell(Head(js), fieldnames[i], bools)])
             \o WriteRows(fieldnames, Tail(js), bools)

\* with open(...) as f: writer = csv.DictWriter(f, fieldnames); writeheader();
\* writerows(jobs).  The text of the file once the with statement is left, and
\* whether writerows raised.
WriteCsv(fieldnames, js, bools) ==
    [file |-> BOM \o WriteRow([i \in 1..Len(fieldnames) |-> Chars(fieldnames[i])])
                  \o WriteRows(fieldnames, js, bools),
     raised |-> \E n \in 1..Len(js) : HasExtra(fieldnames, js[n])]

\* scrape.py lines 71-80: the keys of the dict get_job_details builds, which
\* save_to_csv takes as fieldnames (jobs[0].keys(), line 103)
ApiKeys ==
    <<"id", "title", "company", "location", "salary", "publish_date", "description", "url">>

\* re.sub(r"<[^>]+>", "", s): a '<', at least one character other than '>',
\* and the next '>'
RECURSIVE DropTags(_)
DropTags(s) ==
    IF s = <<>> THEN <<>>
    ELSE IF Head(s) = "<" /\ \E j \in 3..Len(s) : s[j] = ">" /\ \A k \in 2..(j - 1) : s[k] # ">"
         THEN DropTags(SubSeq(s, (CHOOSE j \in 3..Len(s) :
                                     s[j] = ">" /\ \A k \in 2..(j - 1) : s[k] # ">") + 1,
                              Len(s)))
    ELSE <<Head(s)>> \o DropTags(Tail(s))

\* scrape.py lines 88-90: clean_html
clean_html(raw_html) == Strip(DropTags(IF raw_html = None THEN <<>> ELSE raw_html))

\* scrape.py lines 70-80: the dict get_job_details builds from the API's JSON
ApiJob(data) ==
    [id |-> Get(data, "id", None),
     title |-> Get(data, "title", None),
     company |-> Get(data, "companyName", None),
     location |-> Get(data, "city", None),
     salary |-> Get(data, "salaryInfo", None),
     publish_date |-> Get(data, "publishDateInfo", None),
     description |-> clean_html(Get(data, "description", <<>>)),
     url |-> Get(data, "jobOfferUrl", None)]

\* The three save_to_csv functions.  Each returns at once, opening no file,
\* when there are no jobs.  combined_scraper (lines 458-474) writes FIELDS and
\* catches what the writer raises; scrape.py (lines 96-107) writes the keys of
\* the first job; elempleo_full_scraper (lines 200-214) first gives every job
\* the keys of CSV_FIELDS it lacks, then writes CSV_FIELDS.  The result: the
\* file, the jobs as the call leaves them, and whether an exception leaves the
\* function.
save_to_csv(script, js) ==
    IF js = <<>> THEN [file |-> NoFile, jobs |-> js, raised |-> FALSE]
    ELSE CASE script = "combined" ->
                 [file |-> WriteCsv(FIELDS, js, {"featured", "filled", "urgent"}).file,
                  jobs |-> js, raised |-> FALSE]
           [] script = "api" ->
                 [file |-> WriteCsv(ApiKeys, js, {}).file, jobs |-> js,
                  raised |-> WriteCsv(ApiKeys, js, {}).raised]
           [] script = "full" ->
                 LET filled == [n \in 1..Len(js) |-> EnsureDefaults(js[n])]
                 IN  [file |-> WriteCsv(CSV_FIELDS, filled, {}).file, jobs |-> filled,
                      raised |-> WriteCsv(CSV_FIELDS, filled, {}).raised]

\* Inputs of save_to_csv: a card whose text holds the characters the writer
\* quotes, two answers of the API, and per script some lists of records that
\* the script's extraction builds.
KQ == Card(ClsResult, Chars("Dev, \"Sr\"\nAcme, S.A.\n$ 900"), NoEl, "none")

ApiFull ==
    [id |-> Chars("101"), title |-> Chars("Dev"), companyName |-> Chars("Acme, S.A."),
     city |-> Chars("Heredia"), salaryInfo |-> Chars("₡450"), publishDateInfo |-> Chars("hoy"),
     description |-> Chars(" <p>Se busca <b>\"QA\"</b></p>\n<br/>ya "),
     jobOfferUrl |-> Chars("http://x/2")]

ApiSparse == [id |-> Chars("102"), title |-> Chars("Ops"), description |-> None]

SaveInputs(script) ==
    CASE script = "combined" ->
             { <<>>, <<SiteJob(1, K2)>>, <<SiteJob(4, KQ), SiteJob(2, K3)>> }
      [] script = "api" ->
             { <<>>, <<ApiJob(ApiFull)>>, <<ApiJob(ApiFull), ApiJob(ApiSparse)>> }
      [] script = "full" ->
             { <<>>,
               <<[id |-> Chars("101"), title |-> Chars("Dev"), apply_url |-> Chars("/apply/1")]>>,
               <<enrich_with_detail(EnrichPageBare, <<>>, "goto")>>,
               <<enrich_with_detail(EnrichPageFull, <<>>, "none")>>,
               <<enrich_with_detail(EnrichPageBare, <<>>, "goto"),
                 enrich_with_detail(EnrichPageFull, <<>>, "none")>> }

\* The caller's list of jobs, before it calls save_to_csv.
SaveStart ==
    /\ prog = "save" /\ pc = "call"
    /\ results' \in SaveInputs(saver)
    /\ pc' = "save"
    /\ UNCHANGED <<prog, err, ret, saver, file, out, main_ids, visited,
                   idVars, cardVars, simpleVars, combVars, detVars>>
    /\ UNCHANGED objVars

\* One call of save_to_csv(jobs) on that list.
SaveCall ==
    /\ prog = "save" /\ pc = "save"
    /\ results' = save_to_csv(saver, results).jobs
    /\ file' = save_to_csv(saver, results).file
    /\ err' = IF save_to_csv(saver, results).raised THEN "exception" ELSE "none"
    /\ pc' = "done"
    /\ UNCHANGED <<prog, ret, saver, out, main_ids, visited,
                   idVars, cardVars, simpleVars, combVars, detVars>>
    /\ UNCHANGED objVars

(***************************************************************************)
(* The main routines: all_scraper.main, scrape.main,                       *)
(* elempleo_full_scraper.main, combined_scraper.main                       *)
(***************************************************************************)
\* all_scraper.py line 18
DETAIL_BASE_URL == Chars("https://www.elempleo.com/cr/ofertas-trabajo/")

\* The lists a discovery call may return to main: distinct identifiers, at
\* most MaxIds of them (list(job_ids) of a set).
IdLists(values) ==
    {l \in SeqUpTo(values, MaxIds) : \A i, j \in 1..Len(l) : i # j => l[i] # l[j]}

\* The page that the detail URL of job_id shows: one whose og:url is that URL.
DetailPageFor(job_id) ==
    [DetailPageMixed(<<2025, 10, 5>>) EXCEPT
        !.contact = Contact(Chars("sin correo @ x"), TRUE, DETAIL_BASE_URL \o Chars(job_id))]

\* all_scraper.main lines 222-225: the discovery call and the early return
AllMainStart ==
    /\ prog = "main_all" /\ pc = "start"
    /\ \E l \in IdLists(JobOfferValues \ {""}) :
          /\ main_ids' = l
          /\ IF l = <<>>
             THEN out' = Append(out, <<"no ids", 0>>) /\ pc' = "done"
             ELSE out' = Append(out, <<"found ids", Len(l)>>) /\ pc' = "loop"
    /\ UNCHANGED <<prog, err, ret, saver, file, results, visited,
                   idVars, cardVars, simpleVars, combVars, detVars>>
    /\ browser_log' = IF pc' = "loop" THEN <<"launch">> ELSE <<>>     \* lines 230-233
    /\ UNCHANGED <<kept, modal_log>>

\* lines 235-239: one pass of `for idx, job_id in enumerate(job_ids, 1)`;
\* get_job_details returns its record also when the page fails to load
AllMainStep ==
    /\ prog = "main_all" /\ pc = "loop" /\ Len(visited) < Len(main_ids)
    /\ LET job_id == main_ids[Len(visited) + 1]
       IN  /\ visited' = Append(visited, job_id)
           /\ \E r \in {"none", "goto"} :
                 results' = ListAppend(results, get_job_details(DetailPageFor(job_id), r))
    /\ UNCHANGED <<prog, pc, err, ret, saver, file, out, main_ids,
                   idVars, cardVars, simpleVars, combVars, detVars>>
    /\ browser_log' = Touch(browser_log)
    /\ UNCHANGED <<kept, modal_log>>

\* lines 241-251: browser.close(), the CSV file over HEADERS, the final report
AllMainSave ==
    /\ prog = "main_all" /\ pc = "loop" /\ Len(visited) = Len(main_ids)
    /\ file' = WriteCsv(HEADERS, results, {}).file
    /\ out' = Append(out, <<"saved", Len(results)>>)
    /\ pc' = "done"
    /\ UNCHANGED <<prog, err, ret, saver, main_ids, results, visited,
                   idVars, cardVars, simpleVars, combVars, detVars>>
    /\ browser_log' = Append(browser_log, "close")                \* line 241
    /\ UNCHANGED <<kept, modal_log>>

\* The JSON the API answers for job_id with status 200: a full offer, or one
\* that lacks most keys.
ApiAnswers(job_id) ==
    { [ApiFull EXCEPT !.id = Chars(job_id)],
      [id |-> Chars(job_id), title |-> Chars("Ops"), description |-> None],
      [id |-> Chars(job_id), companyName |-> Chars("Acme")] }

\* scrape.main lines 117-120: the discovery call and the early return
ApiMainStart ==
    /\ prog = "main_api" /\ pc = "start"
    /\ \E l \in IdLists(JobOfferValues) :
          /\ main_ids' = l
          /\ IF l = <<>>
             THEN out' = Append(out, <<"no ids", 0>>) /\ pc' = "done"
             ELSE out' = out /\ pc' = "loop"
    /\ UNCHANGED <<prog, err, ret, saver, file, results, visited,
                   idVars, cardVars, simpleVars, combVars, detVars>>
    /\ UNCHANGED objVars

\* lines 124-129: one pass of `for idx, job_id in enumerate(job_ids, 1)`.
\* get_job_details (lines 64-85) returns None for another status than 200 and
\* for an exception; `if job:` drops it.  job['title'][:60] in the print raises
\* TypeError on a title of None, which nothing catches.
ApiMainStep ==
    /\ prog = "main_api" /\ pc = "loop" /\ Len(visited) < Len(main_ids)
    /\ LET job_id == main_ids[Len(visited) + 1]
       IN  /\ visited' = Append(visited, job_id)
           /\ \/ UNCHANGED <<results, pc, err>>                 \* job is None
              \/ \E data \in ApiAnswers(job_id) :
                    /\ results' = ListAppend(results, ApiJob(data))
                    /\ IF ApiJob(data).title = None
                       THEN pc' = "done" /\ err' = "exception"
                       ELSE UNCHANGED <<pc, err>>
    /\ UNCHANGED <<prog, ret, saver, file, out, main_ids,
                   idVars, cardVars, simpleVars, combVars, detVars>>
    /\ UNCHANGED objVars

\* lines 131-135: the total, save_to_csv(jobs), the closing message
ApiMainSave ==
    /\ prog = "main_api" /\ pc = "loop" /\ Len(visited) = Len(main_ids)
    /\ out' = Append(out, <<"total", Len(results)>>)
    /\ file' = save_to_csv("api", results).file
    /\ pc' = "done"
    /\ UNCHANGED <<prog, err, ret, saver, main_ids, results, visited,
                   idVars, cardVars, simpleVars, combVars, detVars>>
    /\ UNCHANGED objVars

\* elempleo_full_scraper.main lines 221-224: the discovery call and the early
\* return
FullMainStart ==
    /\ prog = "main_full" /\ pc = "start"
    /\ \E l \in IdLists(JobOfferValues) :
          /\ main_ids' = l
          /\ IF l = <<>>
             THEN out' = Append(out, <<"no ids", 0>>) /\ pc' = "done"
             ELSE out' = out /\ pc' = "loop"
    /\ UNCHANGED <<prog, err, ret, saver, file, results, visited,
                   idVars, cardVars, simpleVars, combVars, detVars>>
    /\ UNCHANGED objVars

\* lines 226-252: jobs = []; the loop over job_ids only sleeps (its body is
\* commented out), so the enrichment loop over jobs has nothing to visit and
\* save_to_csv(jobs) finds no jobs to save.
FullMainRun ==
    /\ prog = "main_full" /\ pc = "loop"
    /\ LET js == <<>>
           enriched == [n \in 1..Len(js) |->
                           enrich_with_detail(EnrichPageBare, js[n], "none")]
       IN  /\ results' = save_to_csv("full", enriched).jobs
           /\ file' = save_to_csv("full", enriched).file
           /\ visited' = [n \in 1..Len(js) |-> main_ids[n]]
           /\ out' = IF enriched = <<>> THEN Append(out, <<"no jobs", 0>>)
                     ELSE Append(out, <<"saved", Len(enriched)>>)
    /\ pc' = "done"
    /\ UNCHANGED <<prog, err, ret, saver, main_ids,
                   idVars, cardVars, simpleVars, combVars, detVars>>
    /\ browser_log' = <<"launch", "close">>                      \* lines 240-248
    /\ UNCHANGED <<kept, modal_log>>

\* combined_scraper.main lines 521-536, once scrape_all_sites has returned:
\* save_to_csv and print_summary (with its total) when there are jobs, a
\* warning when there are none
CombMain ==
    /\ prog = "combined" /\ pc = "done"
    /\ results' = ret
    /\ file' = save_to_csv("combined", ret).file
    /\ out' = IF ret # <<>> THEN Append(out, <<"total", Len(ret)>>)
              ELSE Append(out, <<"no jobs", 0>>)
    /\ pc' = "exit"
    /\ UNCHANGED <<prog, err, ret, saver, main_ids, visited,
                   idVars, cardVars, simpleVars, combVars, detVars>>
    /\ UNCHANGED objVars

\* A caller calls scrape() once more on the same SimpleElempleoScraper or
\* ElempleoQuickViewScraper, with the same argument (a limit of MaxKept at
\* most): self.jobs is as the earlier call left it.
ScrapeAgain ==
    /\ prog \in {"simple", "quick"} /\ pc = "done"
    /\ Len(jobs) <= MaxKept /\ max_pages <= MaxKept /\ max_jobs <= MaxKept
    /\ kept' = jobs
    /\ pc' = IF prog = "simple" THEN "loop" ELSE "goto"
    /\ err' = "none" /\ ret' = <<>>
    /\ soup' = <<>> /\ cards' = <<>>
    /\ page' = 0 /\ fetched' = <<>> /\ snapshots' = 0
    /\ idx' = 0
    /\ modal_log' = <<>> /\ browser_log' = <<>>
    /\ UNCHANGED <<prog, jobs, site, max_jobs, attempted, failed, job_ids, page_number, max_pages, buttons, anchors,
                   next_link, scroll, max_scrolls, repeated, detVars, mainVars>>

Init ==
    /\ prog \in {"auto", "scroll", "simple", "combined", "details", "enrich",
               "modal", "quick", "save", "main_all", "main_api", "main_full"}
    /\ pc = CASE prog = "simple" -> "loop"
              [] prog = "combined" -> "site"
              [] prog \in {"details", "enrich", "modal", "save"} -> "call"
              [] prog \in {"main_all", "main_api", "main_full"} -> "start"
              [] OTHER -> "goto"
    /\ err = "none"
    /\ ret = <<>>
    /\ job_ids = EmptyBag
    /\ page_number = 0
    /\ max_pages \in CASE prog = "auto" -> 0..MaxLimit
                       [] prog = "simple" -> 0..MaxSimplePages
                       [] OTHER -> {0}
    /\ snapshots = 0
    /\ buttons = <<>>
    /\ anchors = <<>>
    /\ next_link = 0
    /\ scroll = 0
    /\ max_scrolls \in IF prog = "scroll" THEN 0..MaxLimit ELSE {0}
    /\ repeated = FALSE
    /\ jobs = <<>>
    /\ page = 0
    /\ soup = <<>>
    /\ cards = <<>>
    /\ fetched = <<>>
    /\ site = 1
    /\ idx = 0
    /\ max_jobs \in IF prog \in {"combined", "quick"} THEN 0..MaxLimit ELSE {0}
    /\ attempted = <<>>
    /\ failed = {}
    /\ raised = "none"
    /\ job_in = <<>>
    /\ saver \in IF prog = "save" THEN {"combined", "api", "full"} ELSE {"none"}
    /\ file = NoFile
    /\ out = <<>>
    /\ main_ids = <<>>
    /\ results = <<>>
    /\ visited = <<>>
    /\ kept = <<>>
    /\ modal_log = <<>>
    /\ browser_log = <<>>

Next ==
    \/ AutoGoto \/ AutoCapture \/ AutoFindNext \/ AutoClick \/ AutoFinally
    \/ ScrollGoto \/ ScrollStep \/ ScrollExit \/ ScrollFinally
    \/ SimpleIteration \/ SimpleExit \/ SimpleReturn
    \/ CombSite \/ CombCard \/ CombSiteEnd \/ CombFinally
    \/ DetailsCall \/ EnrichCall \/ ModalCall
    \/ QuickStart \/ QuickStep \/ QuickExit \/ QuickFinally
    \/ SaveStart \/ SaveCall
    \/ AllMainStart \/ AllMainStep \/ AllMainSave
    \/ ApiMainStart \/ ApiMainStep \/ ApiMainSave
    \/ FullMainStart \/ FullMainRun
    \/ CombMain
    \/ ScrapeAgain

Spec == Init /\ [][Next]_vars

\* The steps of the three discovery drivers.
Discovery ==
    \/ AutoGoto \/ AutoCapture \/ AutoFindNext \/ AutoClick \/ AutoFinally
    \/ ScrollGoto \/ ScrollStep \/ ScrollExit \/ ScrollFinally
    \/ SimpleIteration \/ SimpleExit \/ SimpleReturn

\* A discovery driver keeps running until it returns: its next step is always
\* taken (the drivers are sequential code; every wait in them has a timeout).
FairSpec == Spec /\ WF_vars(Discovery)

(***************************************************************************)
(* Claims                                                                  *)
(***************************************************************************)
Max(a, b) == IF a >= b THEN a ELSE b

\* A paginating driver leaves its loop when a scanned page shows no next link.
NoNextStops ==
    (prog = "auto" /\ pc = "findnext" /\ pc' # "findnext" /\ FirstNext(anchors') = 0)
        => pc' = "finally"

\* C2 as stated: discovery stays within its step limit for every value of the
\* limit: the paginating driver captures at most max_pages snapshots, the
\* scrolling driver performs at most max_scrolls scroll steps, the simple scraper
\* fetches at most max_pages pages.
C2_WithinLimit ==
    /\ prog = "auto" => snapshots <= max_pages
    /\ prog = "scroll" => scroll <= max_scrolls
    /\ prog = "simple" => page <= max_pages

\* C2 amended: every discovery run ends, whatever the pages show and whatever the
\* step limit; the paginating driver captures at most max(1, max_pages) snapshots
\* (its first capture precedes the first test of the limit), the scrolling driver
\* performs at most max_scrolls scroll steps, the simple scraper fetches at most
\* max_pages pages, and a page with no next link ends the paginating loop at once.
C2_Terminates ==
    /\ [](prog = "auto" => snapshots <= Max(1, max_pages))
    /\ [](prog = "scroll" => scroll <= max_scrolls)
    /\ [](prog = "simple" => page <= max_pages)
    /\ [][NoNextStops]_vars
    /\ (prog \in {"auto", "scroll", "simple"} => <>(pc = "done"))

\* C2 witness: the paginating driver used its whole budget of three pages, the
\* next link still being there.
C2_Witness ==
    /\ prog = "auto" /\ pc = "done" /\ err = "none"
    /\ max_pages = 3 /\ snapshots = 3 /\ next_link # 0

\* C5: a collection step that sees the same set of data-joboffer buttons as the
\* step before it leaves the accumulated identifier set as it was (same members,
\* same size).
C5_Idempotent ==
    [][(prog \in {"auto", "scroll"} /\ snapshots' = snapshots + 1 /\ repeated')
          => job_ids' = job_ids]_vars

\* C5 witness: a second snapshot showed the ids of the first, two of them.
C5_Witness ==
    /\ prog \in {"auto", "scroll"} /\ repeated
    /\ snapshots >= 2 /\ BagCardinality(job_ids) = 2

\* The records _extract_jobs_from_soup appends for the pages ps, in page order.
RECURSIVE RecordsOfPages(_)
RecordsOfPages(ps) ==
    IF ps = <<>> THEN <<>>
    ELSE ExtractJobs(<<>>, OrChain(Head(ps), SimpleSelectors)) \o RecordsOfPages(Tail(ps))

\* The records the call in progress has added to self.jobs.
ThisCall == SubSeq(jobs, Len(kept) + 1, Len(jobs))

\* C6: when page k is the first page of a run of SimpleElempleoScraper.scrape
\* that yields no card, the scraper has fetched pages 1..k and fetches no page
\* after k, and the records it holds are those of pages 1..k-1 in page order.
C6_StopsAtEmptyPage ==
    prog = "simple" =>
        \A k \in 1..Len(fetched) :
            OrChain(fetched[k], SimpleSelectors) = <<>> =>
                /\ Len(fetched) = k /\ page = k
                /\ pc \in {"return", "done"}
                /\ ThisCall = RecordsOfPages(SubSeq(fetched, 1, k - 1))

\* C6 witness: pages 1..3 had cards, page 4 had none, and the run returned.
C6_Witness ==
    /\ prog = "simple" /\ pc = "done" /\ Len(fetched) = 4
    /\ \A i \in 1..3 : OrChain(fetched[i], SimpleSelectors) # <<>>
    /\ OrChain(fetched[4], SimpleSelectors) = <<>>
    /\ Len(jobs) >= 3 /\ ret = jobs

\* C7: a step that raises ends discovery at once, with what had accumulated
\* before it still there, and the run returns exactly that.
C7_PartialResults ==
    /\ [][(err = "none" /\ err' # "none" /\ prog \in {"auto", "scroll", "simple"})
             => /\ pc' \in {"finally", "return"}
                /\ job_ids' = job_ids /\ jobs' = jobs]_vars
    /\ [](pc = "done" /\ prog \in {"auto", "scroll"} => ret \in ListsOf(job_ids))
    /\ [](pc = "done" /\ prog = "simple" => ret = jobs)
    /\ [][(pc \in {"finally", "return"} /\ prog \in {"auto", "scroll", "simple"})
             => (pc' = "done" /\ job_ids' = job_ids /\ jobs' = jobs)]_vars

\* C7 witness: a click raised on the second page and the two ids collected so
\* far were returned; or a request failed after records had been appended.
C7_Witness ==
    /\ pc = "done" /\ err # "none"
    /\ \/ prog = "auto" /\ page_number = 2 /\ Len(ret) = 2
       \/ prog = "simple" /\ page = 3 /\ Len(ret) >= 2

\* C1 as stated: every record a field-extraction operation returns, on the
\* normal and on the exception path, has exactly the keys of its scraper's
\* schema: HEADERS for get_job_details, FIELDS for the site scrapers of
\* JobScraper, CSV_FIELDS for enrich_with_detail.
C1_SchemaKeys ==
    pc = "done" =>
        /\ prog = "details" => DOMAIN ret = Range(HEADERS)
        /\ prog = "combined" => \A i \in 1..Len(ret) : DOMAIN ret[i] = Range(FIELDS)
        /\ prog = "enrich" => DOMAIN ret = Range(CSV_FIELDS)

\* The match set of the lowest-index selector that does not raise and matches at
\* least one element; empty when there is no such selector.
LowestMatch(els, sels, bad) ==
    LET matches(k) == sels[k] \notin bad /\ \E i \in 1..Len(els) : sels[k] \in els[i].cls
    IN  IF \E k \in 1..Len(sels) : matches(k)
        THEN LET k == CHOOSE k \in 1..Len(sels) : matches(k) /\ \A j \in 1..(k - 1) : ~matches(j)
             IN  SelectSeq(els, LAMBDA el : sels[k] \in el.cls)
        ELSE <<>>

\* C3: the card set a site scraper or the simple scraper works on is the match
\* set of the first selector, in declared order, that matches at least one
\* element (a selector that raises counts as no match), also when later
\* selectors match too; it is empty only when no selector matches.
C3_FirstMatchWins ==
    [][/\ (prog = "combined" /\ Len(attempted') > Len(attempted) /\ failed' = failed)
            => cards' = LowestMatch(soup'.els, SiteSelectors[site], soup'.bad)
       /\ (prog = "simple" /\ Len(fetched') > Len(fetched))
            => cards' = LowestMatch(soup', SimpleSelectors, {})]_vars

\* C3 witness: the first selector of the elempleo cascade raised or matched
\* nothing, a later one won, and a selector after the winner matches a different
\* set of elements.
C3_Witness ==
    /\ prog = "combined" /\ pc = "cards" /\ site = 1
    /\ \E k \in 2..Len(SiteSelectors[1]) :
          /\ cards = Select(soup.els, SiteSelectors[1][k])
          /\ \E j \in (k + 1)..Len(SiteSelectors[1]) :
                /\ Select(soup.els, SiteSelectors[1][j]) # <<>>
                /\ Select(soup.els, SiteSelectors[1][j]) # cards

\* A line of the visible text that shows a salary: a currency symbol and an
\* amount.
ShowsSalary(l) == (HasSub(l, Chars("₡")) \/ HasSub(l, Chars("$"))) /\ HasDigit(l)

\* C4 as stated: when no salary selector of the quick view yields an accepted
\* value and the visible text has a line with a salary pattern, the returned
\* record's salary is that line, whatever the other fields' selectors gave.
C4_SalaryFallback ==
    (/\ prog = "modal" /\ pc = "done"
     /\ FindModal(soup, modal_selectors) # "raise" /\ ~soup.text_raises
     /\ Cascade(soup, salary_selectors, "salary", <<>>) = <<>>
     /\ \E i \in 1..Len(Lines(soup.text)) : ShowsSalary(Lines(soup.text)[i]))
        => /\ ret.salary # <<>>
           /\ \E i \in 1..Len(Lines(soup.text)) :
                 ShowsSalary(Lines(soup.text)[i]) /\ ret.salary = Lines(soup.text)[i]

\* C8: in scrape_all_sites a site whose run fails is the only one to stop: the
\* next site in the order elempleo, computrabajo, indeed, jooble is entered, all
\* four sites have been entered when the run ends, and the records collected so
\* far stay in the collection, unchanged and in place.
C8_SiteIsolation ==
    /\ [](prog = "combined" /\ pc = "done" => attempted = <<1, 2, 3, 4>>)
    /\ [][(prog = "combined" /\ failed' # failed)
             => (jobs' = jobs /\ pc' = "site" /\ site' = site + 1)]_vars
    /\ [][prog = "combined"
             => (Len(jobs') >= Len(jobs) /\ SubSeq(jobs', 1, Len(jobs)) = jobs)]_vars

\* C8 witness: computrabajo failed after elempleo had given records; indeed and
\* jooble were still entered, and jooble gave records as well.
C8_Witness ==
    /\ prog = "combined" /\ pc = "done" /\ failed = {2}
    /\ attempted = <<1, 2, 3, 4>>
    /\ Len(ret) >= 2
    /\ ret[1]["source_site"] = SiteNames[1]
    /\ ret[Len(ret)]["source_site"] = SiteNames[4]

\* The record fields a step of get_job_details assigns.
DetailStepFields(s) ==
    CASE s = "image" -> {"_job_featured_image"}
      [] s = "description" -> {"_job_description"}
      [] s = "title" -> {"_job_title"}
      [] s = "category" -> {"_job_category"}
      [] s = "type" -> {"_job_type"}
      [] s = "salary" -> {"_job_salary", "_job_salary_type", "_job_max_salary"}
      [] s = "location" -> {"_job_location", "_job_address"}
      [] s = "experience" -> {"_job_experience"}
      [] s = "qualification" -> {"_job_qualification"}
      [] s = "career_level" -> {"_job_career_level"}
      [] s = "contact" -> {"_job_apply_email", "_job_apply_url"}
      [] OTHER -> {}

\* The page pg with nothing to find for step s.
DetailMissing(pg, s) ==
    CASE s = "description" -> [pg EXCEPT !.description = NoDesc]
      [] s = "experience" -> [pg EXCEPT !.experience = <<>>]
      [] s = "contact" -> [pg EXCEPT !.contact = Contact(<<>>, FALSE, <<>>)]
      [] s = "image" -> [pg EXCEPT !.image = NoEl]
      [] s = "title" -> [pg EXCEPT !.title = NoEl]
      [] s = "category" -> [pg EXCEPT !.category = NoEl]
      [] s = "type" -> [pg EXCEPT !.type = NoEl]
      [] s = "salary" -> [pg EXCEPT !.salary = NoEl]
      [] s = "location" -> [pg EXCEPT !.location = NoEl]
      [] s = "qualification" -> [pg EXCEPT !.qualification = NoEl]
      [] s = "career_level" -> [pg EXCEPT !.career_level = NoEl]
      [] OTHER -> pg

\* The quick-view snapshot md with every raising lookup finding nothing.
QuickNoRaise(md) ==
    [md EXCEPT !.sel = [s \in DOMAIN md.sel |-> IF md.sel[s].k = "raise" THEN Miss ELSE md.sel[s]],
               !.link = IF md.link.k = "raise" THEN Miss ELSE md.link,
               !.text = IF md.text_raises THEN <<>> ELSE md.text,
               !.text_raises = FALSE]

\* C9 as stated: a field lookup that raises inside get_job_details or
\* _extract_from_quick_view leaves that field empty, and every other field of
\* the returned record has the value it would have had, had the lookup found
\* nothing.
C9_LaterFieldsUnaffected ==
    /\ (prog = "details" /\ pc = "done" /\ raised \notin {"none", "goto"})
          => \A k \in Range(HEADERS) :
                IF k \in DetailStepFields(raised) THEN ret[k] = <<>>
                ELSE ret[k] = get_job_details(DetailMissing(soup, raised), "none")[k]
    /\ (prog = "modal" /\ pc = "done" /\ FindModal(soup, modal_selectors) # "raise")
          => ret = ExtractFromQuickView(QuickNoRaise(soup))

\* The number of records of js that carry the site name s.
CountSite(js, s) == Cardinality({i \in 1..Len(js) : js[i]["source_site"] = s})

\* The number of cards of the fetched pages ps that the simple scraper parsed
\* (Titled = TRUE: and that gave a title).
RECURSIVE CountParsed(_, _)
CountParsed(ps, titled) ==
    IF ps = <<>> THEN 0
    ELSE LET cs == LowestMatch(Head(ps), SimpleSelectors, {})
         IN  Cardinality({i \in 1..Len(cs) :
                             titled => (~cs[i].raises /\ ParseJobCard(cs[i]).title # <<>>)})
                 + CountParsed(Tail(ps), titled)

\* The passes 1..idx of the quick-view loop in which a modal was opened and
\* handed to _extract_from_quick_view.
QuickHanded ==
    {i \in 1..idx :
        /\ quick_view_selectors[1] \notin soup.bad
        /\ i <= Len(Located(soup, quick_view_selectors[1]))
        /\ Located(soup, quick_view_selectors[1])[i].raises = "none"}

\* C10 as stated: every card or quick-view modal handed to extraction adds
\* exactly one record to the result collection, title or no title.
C10_OneRecordPerCard ==
    /\ (prog = "combined" /\ pc = "cards") => CountSite(jobs, SiteNames[site]) = idx
    /\ prog = "simple" => Len(ThisCall) = CountParsed(fetched, FALSE)
    /\ (prog = "quick" /\ pc \in {"loop", "finally", "done"})
          => Len(ThisCall) = Cardinality(QuickHanded)

\* C10 amended: a card or quick-view modal handed to extraction adds at most one
\* record: exactly one, with every field of the schema present, when its
\* extraction does not raise and gives a non-empty title; none when the title is
\* empty or the extraction raised.
C10_TitledCardsOnly ==
    /\ (prog = "combined" /\ pc = "cards")
          => /\ CountSite(jobs, SiteNames[site])
                   = Cardinality({i \in 1..idx :
                                     /\ cards[i].raises = "none"
                                     /\ SiteJob(site, cards[i])["title"] # <<>>})
             /\ \A i \in 1..Len(jobs) : DOMAIN jobs[i] = Range(FIELDS)
    /\ prog = "simple" => Len(ThisCall) = CountParsed(fetched, TRUE)
    /\ (prog = "quick" /\ pc \in {"loop", "finally", "done"})
          => Len(ThisCall) = Cardinality({i \in QuickHanded :
                  ExtractFromQuickView(Located(soup, quick_view_selectors[1])[i].modal).title
                      # <<>>})

\* C10 witness: three indeed cards went through the card loop, one raised, one
\* had no text lines, and the third gave the one record of the site.
C10_Witness ==
    /\ prog = "combined" /\ pc = "cards" /\ site = 3 /\ idx = 3
    /\ CountSite(jobs, SiteNames[3]) = 1
    /\ \E i \in 1..3 : cards[i].raises # "none"
    /\ \E i \in 1..3 : cards[i].raises = "none" /\ Lines(cards[i].text) = <<>>

\* A line that shows a currency symbol, and one that holds a salary word of
\* one of the site scrapers.
CurrencyLine(l) == HasSub(l, Chars("₡")) \/ HasSub(l, Chars("$"))
SalaryWordLine(l) == HasAny(Lower(l), {Chars("colones"), Chars("salario"), Chars("año")})

\* The records one pass of a card loop appended.
Added == SubSeq(jobs', Len(jobs) + 1, Len(jobs'))

Decoded(t) == IF t # <<>> /\ t[1] = "U+FEFF" THEN Tail(t) ELSE t

Outside(t, i) == Cardinality({k \in 1..(i - 1) : t[k] = "\""}) % 2 = 0

\* The n-th smallest member of a set of positions.
Nth(S, n) == CHOOSE x \in S : Cardinality({y \in S : y < x}) = n - 1

\* The pieces of t that the separators at the positions seps end, and the
\* piece after the last of them.
Pieces(t, seps) ==
    [k \in 1..(Cardinality(seps) + 1) |->
        SubSeq(t, IF k = 1 THEN 1 ELSE Nth(seps, k - 1) + 1,
                  IF k = Cardinality(seps) + 1 THEN Len(t) ELSE Nth(seps, k) - 1)]

\* The text of one field: of a quoted field, what is between the outer quotes
\* with each doubled quote read as one.
Unquoted(f) ==
    IF f # <<>> /\ f[1] = "\""
    THEN LET inner == SubSeq(f, 2, Len(f) - 1)
             keep == {k \in 1..Len(inner) :
                         inner[k] = "\""
                             => Cardinality({j \in 1..k : inner[j] = "\""}) % 2 = 0}
         IN  [n \in 1..Cardinality(keep) |-> inner[Nth(keep, n)]]
    ELSE f

\* The rows csv.reader gives for the text of a file: for each line, its fields.
ReadCsv(file_text) ==
    LET t == Decoded(file_text)
        lines == Pieces(t, {i \in 1..Len(t) : t[i] = "\n" /\ Outside(t, i)})
        row(l) == LET r == IF l # <<>> /\ l[Len(l)] = "\r" THEN SubSeq(l, 1, Len(l) - 1)
                           ELSE l
                      fs == Pieces(r, {i \in 1..Len(r) : r[i] = "," /\ Outside(r, i)})
                  IN  [k \in 1..Len(fs) |-> Unquoted(fs[k])]
    IN  [n \in 1..(Len(lines) - 1) |-> row(lines[n])]

\* The field list a script's save_to_csv is to write, and str(v) of a
\* record's value.
SchemaOf(script) ==
    CASE script = "combined" -> FIELDS [] script = "api" -> ApiKeys
      [] script = "all" -> HEADERS [] OTHER -> CSV_FIELDS

PyStr(script, rec, f) ==
    IF script = "combined" /\ f \in {"featured", "filled", "urgent"}
    THEN (IF rec[f] THEN Chars("True") ELSE Chars("False"))
    ELSE rec[f]

\* C12 as stated: for any N records a scraper produced, the file save_to_csv
\* writes reads back as a header row equal to the schema's field list, in its
\* order, and N data rows whose values equal the records' values.
C12_RoundTrip ==
    (prog = "save" /\ pc = "done")
       => /\ err = "none"
          /\ file # NoFile
          /\ LET rows == ReadCsv(file)
                 fn == SchemaOf(saver)
             IN  /\ Len(rows) = Len(results) + 1
                 /\ rows[1] = [i \in 1..Len(fn) |-> Chars(fn[i])]
                 /\ \A n \in 1..Len(results) :
                       /\ DOMAIN results[n] = Range(fn)
                       /\ rows[n + 1] = [i \in 1..Len(fn) |-> PyStr(saver, results[n], fn[i])]

\* l is m or m with records added at its end.
Extends(l, m) == Len(l) >= Len(m) /\ SubSeq(l, 1, Len(m)) = m

\* The position of a record's site in the order the sites are scraped.
SiteIndex(rec) == CHOOSE i \in 1..4 : SiteNames[i] = rec["source_site"]

\* The data rows of the written file are the records js, one each, in order.
RowsFollow(script, js) ==
    LET rows == ReadCsv(file')
        fn == SchemaOf(script)
    IN  /\ Len(rows) = Len(js) + 1
        /\ \A n \in 1..Len(js) :
              rows[n + 1] = [i \in 1..Len(fn) |-> Cell(js[n], fn[i], {"featured", "filled", "urgent"})]

\* C13: records reach the output in the order they were appended, and nothing
\* reorders or removes an appended record.  In combined_scraper every step
\* leaves the earlier records in place, a card adds at most its own record at
\* the end, the records are grouped by site in the order elempleo,
\* computrabajo, indeed, jooble, and the rows of the file are the records in
\* that order.  In all_scraper.main the i-th record is the one of the i-th
\* identifier, every step leaves the earlier records in place, and the rows of
\* the file are the records in that order.
C13_OrderPreserved ==
    [][/\ prog = "combined" =>
            /\ Extends(jobs', jobs)
            /\ Len(jobs') > Len(jobs) =>
                  /\ idx' = idx + 1
                  /\ jobs' = jobs \o <<SiteJob(site, cards[idx'])>>
            /\ \A i, j \in 1..Len(jobs') : i < j => SiteIndex(jobs'[i]) <= SiteIndex(jobs'[j])
            /\ pc' = "done" => ret' = jobs
            /\ pc' = "exit" => results' = jobs /\ (jobs # <<>> => RowsFollow("combined", jobs))
       /\ prog = "main_all" =>
            /\ Extends(results', results)
            /\ Len(results') = Len(visited')
            /\ Extends(main_ids', visited')
            /\ \A i \in 1..Len(results') :
                  results'[i]["_job_apply_url"] \in {<<>>, DETAIL_BASE_URL \o Chars(main_ids'[i])}
            /\ (pc' = "done" /\ main_ids' # <<>>) => RowsFollow("all", results')]_vars

\* C13 witness: main of all_scraper has written three records of three
\* identifiers, and combined_scraper.main a file with records of two sites.
C13_Witness ==
    \/ /\ prog = "main_all" /\ pc = "done" /\ Len(results) = 3
       /\ \A i \in 1..3 : results[i]["_job_apply_url"] = DETAIL_BASE_URL \o Chars(main_ids[i])
    \/ /\ prog = "combined" /\ pc = "exit" /\ Len(results) >= 3
       /\ \E i, j \in 1..Len(results) : SiteIndex(results[i]) < SiteIndex(results[j])

\* A main routine has ended: returned, or stopped by an uncaught exception.
MainEnded ==
    \/ prog \in {"main_all", "main_api", "main_full"} /\ pc = "done"
    \/ prog = "combined" /\ pc = "exit"

\* C14 as stated: when a run of a scraper's main has ended, it has reported a
\* count of the records it extracted, on every path: with no identifiers or
\* no records found, with some lookups failed, and with all succeeded.
C14_CountReported ==
    MainEnded =>
        \E k \in 1..Len(out) : out[k][1] \in {"saved", "total"} /\ out[k][2] = Len(results)

\* A step of an identifier collection loop that took a snapshot.
SnapshotStep == prog \in {"auto", "scroll"} /\ snapshots' = snapshots + 1

RECURSIVE FirstNonEmpty(_)
FirstNonEmpty(c) ==
    IF c = <<>> THEN NoEl
    ELSE IF Head(c).found /\ GetText(Head(c)) # <<>> THEN Head(c)
    ELSE FirstNonEmpty(Tail(c))

\* A record holds, for the fields of card c that _parse_job_card takes by a
\* cascade, the text of the first candidate with non-empty text.
TakenByPriority(job, c) ==
    /\ job.title = GetText(FirstNonEmpty(c.title))
    /\ job.company = GetText(FirstNonEmpty(c.company))
    /\ job.location = GetText(FirstNonEmpty(c.location))
    /\ job.salary = GetText(FirstNonEmpty(c.salary))
    /\ job.posting_date = GetText(FirstNonEmpty(c.date))

\* The candidates of the quick view's title cascade that find an element with
\* non-empty text.
TitleHits(md) ==
    {k \in 1..Len(title_selectors) :
        /\ Lookup(md, title_selectors[k]).k = "text"
        /\ Strip(Lookup(md, title_selectors[k]).text) # <<>>}

\* C16 as stated: a field's value is the trimmed text of the first candidate,
\* in priority order, that finds an element with non-empty text; a candidate of
\* higher priority that finds an element with empty text does not keep a later
\* candidate from being taken.  For _parse_job_card: every card of the page
\* that parses and has such a title has its record in the result; for the
\* quick view: the title is the text of the first such candidate.
C16_FirstNonEmptyWins ==
    /\ (prog = "simple" /\ pc # "done")
          => \A n \in 1..Len(cards) :
                (~cards[n].raises /\ FirstNonEmpty(cards[n].title).found)
                    => \E j \in 1..Len(jobs) : TakenByPriority(jobs[j], cards[n])
    /\ (prog = "modal" /\ pc = "done" /\ err = "none" /\ TitleHits(soup) # {})
          => \E k \in TitleHits(soup) :
                /\ \A j \in TitleHits(soup) : k <= j
                /\ ret.title = Strip(Lookup(soup, title_selectors[k]).text)

\* What a finished call found on the page it read: the email-shaped token of
\* the text, and the target of the link the extractor looks for.
PageEmail == EmailSearch(soup.contact.text)
PageLink == IF soup.contact.found THEN soup.contact.href ELSE <<>>

\* A detail extractor returned without any of its steps raising.
DetailDone == prog \in {"details", "enrich"} /\ pc = "done" /\ raised = "none"

\* The name of a contact field in the schema of the extractor that ran.
ContactKey(f) == IF prog = "details" THEN "_job_" \o f ELSE f

\* C17 as stated: with an email-shaped token in the text, apply_email is that
\* token and apply_type is "email", whether or not there is a link; without
\* one but with a link, apply_url is its target and apply_type is "website" or
\* "external"; with neither, apply_type is empty.
C17_EmailBeforeLink ==
    DetailDone =>
        /\ PageEmail # <<>>
              => /\ ret[ContactKey("apply_email")] = PageEmail
                 /\ ret[ContactKey("apply_type")] = Chars("email")
        /\ (PageEmail = <<>> /\ PageLink # <<>>)
              => /\ ret[ContactKey("apply_url")] = PageLink
                 /\ ret[ContactKey("apply_type")] \in {Chars("website"), Chars("external")}
        /\ (PageEmail = <<>> /\ PageLink = <<>>) => ret[ContactKey("apply_type")] = <<>>

\* C17 amended: apply_email is the email-shaped token of the text whenever
\* there is one, and apply_url the target of the link whenever there is one,
\* both at once when the page has both.  enrich_with_detail classifies by the
\* link first: "website" when the record has an apply_url, "email" when it has
\* none but an apply_email, empty when it has neither.  get_job_details sets
\* "external" on every page.
C17_LinkBeforeEmail ==
    DetailDone =>
        /\ PageEmail # <<>> => ret[ContactKey("apply_email")] = PageEmail
        /\ PageLink # <<>> => ret[ContactKey("apply_url")] = PageLink
        /\ prog = "enrich" =>
              ret["apply_type"] =
                  (IF ret["apply_url"] # <<>> THEN Chars("website")
                   ELSE IF ret["apply_email"] # <<>> THEN Chars("email")
                   ELSE <<>>)
        /\ prog = "details" =>
              /\ ret["_job_apply_type"] = Chars("external")
              /\ PageEmail = <<>> => ret["_job_apply_email"] = <<>>
              /\ PageLink = <<>> => ret["_job_apply_url"] = <<>>

\* C17 witness: enrich_with_detail read a page with an email in its text and
\* an apply link, kept both and classified the record as "website".
C17_Witness ==
    /\ DetailDone /\ prog = "enrich"
    /\ PageEmail # <<>> /\ PageLink # <<>>
    /\ ret["apply_email"] = PageEmail /\ ret["apply_url"] = PageLink
    /\ ret["apply_type"] = Chars("website")

\* The cards of a page that _extract_jobs_from_soup parses without an
\* exception and with a title, by position.
ParsedCards(cs) ==
    {n \in 1..Len(cs) : ~cs[n].raises /\ ParseJobCard(cs[n]).title # <<>>}

\* C18: an exception while a card is extracted costs that card only.  In the
\* card loops of combined_scraper and in the quick-view loop the step of a
\* card that raises appends nothing, changes no earlier record and leaves the
\* loop running, and the step of every other card appends that card's own
\* record when it has a title, whatever happened to the cards before it; the
\* loop is left only after its last card (or, in the quick view, when the
\* buttons are gone).  _extract_jobs_from_soup adds to the earlier records the
\* records of exactly the cards that parse and have a title, in card order.
C18_CardIsolation ==
    [][/\ (prog = "combined" /\ pc = "cards") =>
            /\ Extends(jobs', jobs)
            /\ idx' = idx + 1 =>
                  /\ pc' = "cards"
                  /\ cards[idx'].raises # "none" => jobs' = jobs
                  /\ (cards[idx'].raises = "none" /\ SiteJob(site, cards[idx'])["title"] # <<>>)
                        => jobs' = jobs \o <<SiteJob(site, cards[idx'])>>
            /\ pc' # "cards" => idx >= Len(cards) \/ idx >= max_jobs
       /\ (prog = "quick" /\ pc = "loop") =>
            /\ Extends(jobs', jobs)
            /\ (idx' = idx + 1 /\ pc' = "loop" /\ quick_view_selectors[1] \notin soup.bad) =>
                  LET button == Located(soup, quick_view_selectors[1])[idx']
                  IN  /\ button.raises # "none" => jobs' = jobs
                      /\ (button.raises = "none" /\ ExtractFromQuickView(button.modal).title # <<>>)
                            => jobs' = jobs \o <<ExtractFromQuickView(button.modal)>>
            /\ pc' # "loop" =>
                  \/ idx >= Len(cards) \/ idx >= max_jobs
                  \/ /\ quick_view_selectors[1] \notin soup.bad
                     /\ idx >= Len(Located(soup, quick_view_selectors[1]))
       /\ (prog = "simple" /\ Len(fetched') > Len(fetched)) =>
            jobs' = jobs \o [k \in 1..Cardinality(ParsedCards(cards')) |->
                               ParseJobCard(cards'[Nth(ParsedCards(cards'), k)])]]_vars

\* C18 witness: a card before the last one handled raised, and the record of
\* the last one handled is the last of the records, behind an earlier one.
C18_Witness ==
    \/ /\ prog = "combined" /\ pc = "cards" /\ idx >= 2 /\ Len(jobs) >= 2
       /\ \E k \in 1..(idx - 1) : cards[k].raises # "none"
       /\ jobs[Len(jobs)] = SiteJob(site, cards[idx])
    \/ /\ prog = "simple" /\ pc = "loop" /\ Len(cards) = 3 /\ Len(jobs) >= 2
       /\ cards[2].raises
       /\ jobs[Len(jobs)] = ParseJobCard(cards[3])
       /\ jobs[Len(jobs) - 1] = ParseJobCard(cards[1])

\* C19 as stated: when main of all_scraper, scrape or elempleo_full_scraper
\* has ended after discovery returned identifiers, it has looked up every
\* identifier once, in the order of the list, and its result holds one record
\* per identifier, the i-th for the i-th identifier, failed lookups included.
C19_OneRecordPerId ==
    (prog \in {"main_all", "main_api", "main_full"} /\ pc = "done" /\ main_ids # <<>>)
        => /\ visited = main_ids
           /\ Len(results) = Len(main_ids)
           /\ prog = "main_api" =>
                 \A i \in 1..Len(results) : results[i].id = Chars(main_ids[i])
           /\ prog = "main_all" =>
                 \A i \in 1..Len(results) :
                    results[i]["_job_apply_url"] \in {<<>>, DETAIL_BASE_URL \o Chars(main_ids[i])}

\* The salary texts of the records a card or quick-view extractor produced.
Salaries ==
    CASE prog = "combined" -> {jobs[i]["salary"] : i \in 1..Len(jobs)}
      [] prog = "quick" -> {jobs[i].salary : i \in 1..Len(jobs)}
      [] prog = "modal" /\ pc = "done" -> {ret.salary}
      [] OTHER -> {}

\* C20 as stated: the salary of every record of _extract_from_quick_view and
\* of the combined site scrapers is empty or holds a digit or a currency
\* glyph.
C20_SalaryPlausible ==
    \A t \in Salaries : t = <<>> \/ HasDigit(t) \/ CurrencyLine(t)

\* C20 amended: the salary is empty or holds a digit, a currency glyph or one
\* of the salary words the extractor takes without either: "confidencial" in
\* the quick view, "colones" in scrape_elempleo, "salario" in
\* scrape_computrabajo.
C20_SalaryMarked ==
    /\ \A t \in Salaries :
          \/ t = <<>> \/ HasDigit(t) \/ CurrencyLine(t)
          \/ prog \in {"quick", "modal"} /\ HasSub(Lower(t), Chars("confidencial"))
          \/ prog = "combined" /\ HasAny(Lower(t), {Chars("colones"), Chars("salario")})
    /\ prog = "combined" =>
          \A i \in 1..Len(jobs) :
             LET t == jobs[i]["salary"]
                 s == SiteIndex(jobs[i])
             IN  \/ t = <<>> \/ CurrencyLine(t)
                 \/ s = 1 /\ HasSub(Lower(t), Chars("colones"))
                 \/ s = 2 /\ HasSub(Lower(t), Chars("salario"))
                 \/ s = 3 /\ HasDigit(t) /\ HasSub(Lower(t), Chars("año"))

\* C20 witness: records with a salary that has neither digit nor glyph: from
\* scrape_elempleo and scrape_computrabajo, or from the quick view.
C20_Witness ==
    \/ /\ prog = "combined"
       /\ \E i, j \in 1..Len(jobs) :
             /\ jobs[i]["salary"] = Chars("Pago en colones") /\ SiteIndex(jobs[i]) = 1
             /\ jobs[j]["salary"] = Chars("Buen salario") /\ SiteIndex(jobs[j]) = 2
    \/ /\ prog = "modal" /\ pc = "done"
       /\ ret.salary = Chars("Salario Confidencial")

\* The anchors of a page whose trimmed text is, but for case, one of the
\* next-page tokens.
NextAnchors(as) ==
    {i \in 1..Len(as) :
        \E tok \in {Chars("siguiente"), Chars(">"), Chars("»"), Chars("next")} :
            Lower(Strip(as[i])) = tok}

RecordsKept(l, m) == Len(m) >= Len(l) /\ \A n \in 1..Len(l) : m[n] = l[n]

\* C22 as stated: once a record is in a result list, no later step changes a
\* field of it or adds a key to it: not a later card, site or lookup, not the
\* enrichment, not the saving.
C22_NeverUpdated ==
    [][RecordsKept(jobs, jobs') /\ (pc # "call" => RecordsKept(results, results'))]_vars

\* C22 amended: the records in the lists of the card scrapers and of the mains
\* are never changed once appended, and save_to_csv of combined_scraper and of
\* scrape leaves the records it writes as they are.  save_to_csv of
\* elempleo_full_scraper completes its records in place: each keeps its keys
\* with their values and gains, with an empty value, the keys of CSV_FIELDS it
\* lacked.
C22_CompletedInPlace ==
    [][/\ RecordsKept(jobs, jobs')
       /\ (pc # "call" /\ ~(prog = "save" /\ saver = "full")) => RecordsKept(results, results')
       /\ (prog = "save" /\ saver = "full" /\ pc = "save") =>
            /\ Len(results') = Len(results)
            /\ \A n \in 1..Len(results) :
                  /\ DOMAIN results'[n] = (DOMAIN results[n]) \cup Range(CSV_FIELDS)
                  /\ \A k \in DOMAIN results[n] : results'[n][k] = results[n][k]
                  /\ \A k \in Range(CSV_FIELDS) \ DOMAIN results[n] : results'[n][k] = <<>>]_vars

\* C22 witness: save_to_csv of elempleo_full_scraper has been given a record
\* without the key "category" and left it with that key, and with the target
\* of its apply link as before.
C22_Witness ==
    /\ prog = "save" /\ saver = "full" /\ pc = "done" /\ Len(results) = 1
    /\ results[1]["id"] = Chars("101")
    /\ results[1]["apply_url"] = Chars("/apply/1")
    /\ results[1]["category"] = <<>>

\* min(max_jobs, number of matched cards)
CardBudget == IF max_jobs < Len(cards) THEN max_jobs ELSE Len(cards)

\* C23 as stated: a site run with limit max_jobs handles exactly the first
\* min(max_jobs, number of matched cards) cards in match order: each pass of
\* its loop takes the next matched card within that number, a record it
\* appends is the record of that card, and the loop is left only when that
\* number of cards has been handled; so it appends at most max_jobs records.
C23_FirstCardsOnly ==
    [][/\ (prog = "combined" /\ pc = "cards") =>
            /\ idx' = idx + 1 =>
                  /\ idx' <= CardBudget
                  /\ Len(jobs') > Len(jobs) => jobs' = Append(jobs, SiteJob(site, cards[idx']))
            /\ pc' # "cards" => idx = CardBudget
       /\ (prog = "quick" /\ pc = "loop") =>
            /\ idx' = idx + 1 =>
                  /\ idx' <= CardBudget
                  /\ Len(jobs') > Len(jobs)
                        => jobs' = Append(jobs, ExtractFromQuickView(cards[idx'].modal))
            /\ pc' # "loop" => idx = CardBudget
            /\ Len(jobs') <= max_jobs]_vars

\* C24: the identifiers a discovery run has accumulated only grow.  Every step
\* of get_job_ids_with_playwright_auto and of get_job_ids_with_playwright keeps
\* each identifier it had, a step that reads a snapshot adds the identifiers the
\* snapshot shows, and the list returned, after a step raised as well, holds
\* each accumulated identifier exactly once and nothing else.
C24_IdsOnlyGrow ==
    [][(prog \in {"auto", "scroll"}) =>
         /\ \A x \in BagToSet(job_ids) : BagIn(x, job_ids') /\ CopiesIn(x, job_ids') = 1
         /\ snapshots' = snapshots + 1 =>
               \A i \in 1..Len(buttons') :
                   (prog = "scroll" \/ buttons'[i] # "") => BagIn(buttons'[i], job_ids')
         /\ (pc # "done" /\ pc' = "done") =>
               /\ \A x \in BagToSet(job_ids) :
                      1 = Cardinality({i \in 1..Len(ret') : ret'[i] = x})
               /\ Range(ret') = BagToSet(job_ids)]_vars

\* C24 witness: a scroll run read two snapshots or more, a later step raised,
\* and the list returned holds an identifier the last snapshot did not show.
C24_Witness ==
    /\ prog = "scroll" /\ pc = "done" /\ err = "exception"
    /\ snapshots >= 2
    /\ \E i \in 1..Len(ret) : ret[i] \notin Range(buttons)

\* The positions of the records of l that site s produced.
OfSite(l, s) == {i \in 1..Len(l) : l[i]["source_site"] = SiteNames[s]}

\* The cards among the first n of cs whose record site s keeps.
KeptOf(s, cs, n) ==
    {k \in 1..Truncated(cs, n) : cs[k].raises = "none" /\ SiteJob(s, cs[k])["title"] # <<>>}

\* C25 as stated: the site runs of JobScraper share no mutable state: the
\* list a site run appends a record to holds no record of another site.
C25_NoSharedState ==
    [][(prog = "combined" /\ Len(jobs') > Len(jobs)) =>
          \A i \in 1..Len(jobs) : jobs[i]["source_site"] = SiteNames[site]]_vars

\* C25 amended: the site runs of JobScraper follow one another and share the
\* list self.jobs, which each of them only appends to: a step of a site run
\* leaves the records already in the list as they are and adds records of its
\* own site only, and when the card loop of a site ends the records of that
\* site in the list are the records of the cards it kept among the first
\* max_jobs of its own page, in card order, whatever the earlier sites left.
C25_OwnRecordsOnly ==
    [][prog = "combined" =>
          /\ Extends(jobs', jobs)
          /\ \A i \in (Len(jobs) + 1)..Len(jobs') : jobs'[i]["source_site"] = SiteNames[site]
          /\ (pc = "cards" /\ pc' = "site") =>
                /\ Cardinality(OfSite(jobs, site)) = Cardinality(KeptOf(site, cards, max_jobs))
                /\ \A k \in 1..Cardinality(OfSite(jobs, site)) :
                      jobs[Nth(OfSite(jobs, site), k)]
                         = SiteJob(site, cards[Nth(KeptOf(site, cards, max_jobs), k)])]_vars

\* C25 witness: the card loop of computrabajo has ended with records of its
\* own in a list that held records of elempleo before.
C25_Witness ==
    /\ prog = "combined" /\ pc = "site" /\ site = 3 /\ 2 \notin failed
    /\ cards # <<>>
    /\ OfSite(jobs, 1) # {} /\ OfSite(jobs, 2) # {}

\* The days of year y before its month m.
RECURSIVE DaysBefore(_, _)
DaysBefore(y, m) == IF m = 1 THEN 0 ELSE DaysBefore(y, m - 1) + DaysIn(y, m - 1)

\* The number of a date in the calendar, counted in days.
Ordinal(date) ==
    LET y == date[1] - 1
    IN  365 * y + (y \div 4) - (y \div 100) + (y \div 400) + DaysBefore(date[1], date[2]) + date[3]

\* The dates whose text is t and that lie n days after date.
DatesAfter(date, n, t) ==
    {later \in (date[1]..(date[1] + 1)) \X (1..12) \X (1..31) :
        /\ later[3] <= DaysIn(later[1], later[2])
        /\ Strftime(later) = t
        /\ Ordinal(later) = Ordinal(date) + n}

\* C26: the two placeholder dates of a record of get_job_details are always
\* equal.  After an extraction without exception both are the text, as
\* YYYY-MM-DD, of the day exactly 30 days after the day of the extraction;
\* after an exception both are empty or both are that text.
C26_PlaceholderDates ==
    (prog = "details" /\ pc = "done") =>
        /\ ret["_job_expiry_date"] = ret["_job_application_deadline_date"]
        /\ err = "none" => DatesAfter(soup.today, 30, ret["_job_expiry_date"]) # {}
        /\ err # "none" =>
              \/ ret["_job_expiry_date"] = <<>>
              \/ DatesAfter(soup.today, 30, ret["_job_expiry_date"]) # {}

\* C26 witness: an extraction on 31 January 2024 gave 1 March 2024 for both
\* dates.
C26_Witness ==
    /\ prog = "details" /\ pc = "done"
    /\ soup.today = <<2024, 1, 31>>
    /\ ret["_job_expiry_date"] = Chars("2024-03-01")
    /\ ret["_job_application_deadline_date"] = Chars("2024-03-01")

\* C27 as stated: the buttons ElempleoQuickViewScraper.scrape re-locates in
\* its loop are those of the selector that won the cascade, whichever it was:
\* a pass of the loop does not stop the loop on an unchanged page, and it
\* handles the button at its position among the buttons the cascade found, so
\* that a button that opens a modal with a title gives that modal's record.
C27_WinningSelectorKept ==
    [][(prog = "quick" /\ pc = "loop" /\ idx' = idx + 1) =>
          /\ pc' = "loop"
          /\ (cards[idx'].raises = "none" /\ KeepModal(ExtractFromQuickView(cards[idx'].modal)))
                => jobs' = Append(jobs, ExtractFromQuickView(cards[idx'].modal))]_vars

\* C28 as stated: a scrape call returns the records of that call only: what
\* scrape() or scrape_all_sites() returns is the list of the records added to
\* self.jobs since the call began, also when the object had scraped before.
C28_OnlyThisRun ==
    (prog \in {"simple", "quick", "combined"} /\ pc = "done") =>
        /\ Extends(jobs, kept)
        /\ ret = ThisCall

\* C29: in ElempleoQuickViewScraper.scrape every click on a quick-view button
\* is followed by a call of _close_modal that returns, before the next click
\* and before the loop goes on, after a pass that extracted and after a pass
\* that raised; _close_modal never raises, so a pass leaves the loop only by
\* its break, before any click.
C29_CloseAfterClick ==
    /\ [](prog = "quick" =>
             \A i \in 1..Len(modal_log) :
                 modal_log[i] = "click" =>
                     /\ i < Len(modal_log)
                     /\ modal_log[i + 1] \in {"button", "escape", "nothing"})
    /\ [][(prog = "quick" /\ pc = "loop" /\ idx' = idx + 1) =>
             /\ err' = err
             /\ pc' # "loop" => modal_log' = modal_log
             /\ \A i \in (Len(modal_log) + 1)..Len(modal_log') : modal_log'[i] # "raised"]_vars

\* C29 witness: two buttons were clicked, the pass of the first raised after
\* its click, the second gave a record, and a close followed each click.
C29_Witness ==
    /\ prog = "quick" /\ pc = "loop" /\ idx = 2
    /\ cards[1].raises = "screenshot" /\ cards[2].raises = "none"
    /\ Len(jobs) = Len(kept) + 1
    /\ modal_log = <<"click", "button", "click", "button">>

\* The browser of the log is launched and not closed.
BrowserOpen(log) == log # <<>> /\ log[Len(log)] # "close"

\* How often event e is in the log.
Times(log, e) == Cardinality({i \in 1..Len(log) : log[i] = e})

\* A step of the quick-view scraper, of scrape_all_sites or of main of
\* all_scraper that brings the end of the routine nearer: the next button,
\* card, site or identifier within those there are, or the way out of a loop.
Advances ==
    CASE prog = "quick" ->
           \/ pc = "loop" /\ pc' = "finally"
           \/ pc' = pc /\ idx' = idx + 1 /\ idx' <= Truncated(cards, max_jobs)
      [] prog = "combined" ->
           \/ site' = site + 1 /\ site' <= 5
           \/ site' = site /\ pc = "site" /\ pc' = "cards"
           \/ site' = site /\ pc' = pc /\ idx' = idx + 1 /\ idx' <= Truncated(cards, max_jobs)
      [] prog = "main_all" ->
           Len(visited') = Len(visited) + 1 /\ Len(visited') <= Len(main_ids)
      [] OTHER -> TRUE

\* C30: a browser that get_job_ids_with_playwright_auto, main of all_scraper,
\* ElempleoQuickViewScraper.scrape or JobScraper.scrape_all_sites has launched
\* is closed exactly once on every path, and its page is not used after that:
\* every action on a page and every close comes after a launch with no close
\* in between, and a routine has returned only with one launch and one close
\* (none of either when main found no identifiers).  The discovery drivers
\* always reach the close; in the other routines every step taken with the
\* browser open brings the close nearer.
C30_ClosedOnce ==
    /\ [](\A i \in 1..Len(browser_log) :
             IF browser_log[i] = "launch" THEN i = 1 \/ browser_log[i - 1] = "close"
             ELSE i > 1 /\ browser_log[i - 1] \in {"launch", "page"})
    /\ []((prog \in {"auto", "scroll", "quick", "combined"} /\ pc = "done")
             => Times(browser_log, "launch") = 1 /\ Times(browser_log, "close") = 1)
    /\ []((prog \in {"main_all", "main_full"} /\ pc = "done")
             => /\ Times(browser_log, "launch") = (IF main_ids = <<>> THEN 0 ELSE 1)
                /\ Times(browser_log, "close") = Times(browser_log, "launch"))
    /\ [][(BrowserOpen(browser_log) /\ BrowserOpen(browser_log')) => Advances]_vars
    /\ []((prog \in {"auto", "scroll"} /\ BrowserOpen(browser_log))
             => <>(~BrowserOpen(browser_log)))

\* C30 witness: the quick-view scraper has returned after a pass of its loop
\* raised, or after it found no button, or combined_scraper after a site
\* failed, with the browser launched, used and closed.
C30_Witness ==
    /\ pc = "done" /\ browser_log = <<"launch", "page", "close">>
    /\ \/ prog = "quick" /\ cards # <<>> /\ cards[1].raises # "none" /\ idx >= 1
       \/ prog = "combined" /\ failed # {}

====
